---- MODULE Spec2Model ----
(***************************************************************************)
(* Excel ingestion pipeline for insurance policies (src/part2/src):        *)
(* ExcelParser, InsuranceDataIngestionPipeline.ingest_excel_file,          *)
(* InsurancePolicyRepository.bulk_create_policies and                      *)
(* AuditRepository.log_data_ingestion.                                     *)
(*                                                                         *)
(* Text is a sequence of one-character strings, so that stripping,         *)
(* substring tests and numeric parsing are computed, not assumed.          *)
(* Floats are fixed-point integers in hundredths (1234.5 is 123450).       *)
(***************************************************************************)
EXTENDS Integers, Sequences, FiniteSets, TLC

(***************************************************************************)
(* Bounds of the model.                                                    *)
(***************************************************************************)
\* Longest sheet (data rows) the model reads.
MaxRows == 2
\* Largest batch_size of a request (the code's range 100..10000 scaled down).
MaxBatch == 2
\* Longest text of a numeric cell the sanitizer is called with.
MaxCellLen == 3
\* Most blanks on either side of the hyphen of a period text.
MaxGap == 1
\* Most headers of the short sheets the column mapper is called with.
MaxShort == 2

(***************************************************************************)
(* Text helpers: str.strip, str.upper, str.lower, `a in b`.                *)
(***************************************************************************)
Whitespace == {" ", "\t", "\n"}

LowerLetters ==
  <<"a","b","c","d","e","f","g","h","i","j","k","l","m",
    "n","o","p","q","r","s","t","u","v","w","x","y","z">>

UpperLetters ==
  <<"A","B","C","D","E","F","G","H","I","J","K","L","M",
    "N","O","P","Q","R","S","T","U","V","W","X","Y","Z">>

UpperChar(c) ==
  IF \E i \in DOMAIN LowerLetters : LowerLetters[i] = c
  THEN UpperLetters[CHOOSE i \in DOMAIN LowerLetters : LowerLetters[i] = c]
  ELSE c

LowerChar(c) ==
  IF \E i \in DOMAIN UpperLetters : UpperLetters[i] = c
  THEN LowerLetters[CHOOSE i \in DOMAIN UpperLetters : UpperLetters[i] = c]
  ELSE c

Upper(s) == [i \in DOMAIN s |-> UpperChar(s[i])]

Lower(s) == [i \in DOMAIN s |-> LowerChar(s[i])]

RECURSIVE LStrip(_)
LStrip(s) ==
  IF s # <<>> /\ Head(s) \in Whitespace THEN LStrip(Tail(s)) ELSE s

RECURSIVE RStrip(_)
RStrip(s) ==
  IF s # <<>> /\ s[Len(s)] \in Whitespace
  THEN RStrip(SubSeq(s, 1, Len(s) - 1))
  ELSE s

Strip(s) == RStrip(LStrip(s))

\* str.replace(c, ''): every occurrence of the character removed.
RemoveChar(s, c) == SelectSeq(s, LAMBDA x : x # c)

\* Python's `a in b` on strings.
IsSubstr(a, b) ==
  \E i \in 1..(Len(b) - Len(a) + 1) : SubSeq(b, i, i + Len(a) - 1) = a

\* An empty Excel cell, read by pandas as NaN.
NaN == <<"<NaN>">>

\* Series.astype(str): NaN becomes the text 'nan'.
AsTypeStr(cell) == IF cell = NaN THEN <<"n","a","n">> ELSE cell

(***************************************************************************)
(* Column Mapper: ExcelColumnMapping defaults, _create_column_mapping,     *)
(* _find_best_column_match, _validate_required_columns.                    *)
(***************************************************************************)
\* Python's None for an Optional[str].
None == <<"<None>">>

DefaultMapping ==
  [ policy_number_col |-> <<"P","O","L","I","C","Y"," ","N","U","M","B","E","R">>,
    insured_name_col |-> <<"I","N","S","U","R","E","D"," ","N","A","M","E">>,
    sum_insured_col |-> <<"S","U","M"," ","I","N","S","U","R","E","D">>,
    premium_col |-> <<"P","R","E","M","I","U","M">>,
    own_retention_ppn_col |->
      <<"O","W","N"," ","R","E","T","E","N","T","I","O","N"," ","%">>,
    own_retention_sum_col |->
      <<"O","W","N"," ","R","E","T","E","N","T","I","O","N"," ",
        "S","U","M"," ","I","N","S","U","R","E","D">>,
    own_retention_premium_col |->
      <<"O","W","N"," ","R","E","T","E","N","T","I","O","N"," ",
        "P","R","E","M","I","U","M">>,
    treaty_ppn_col |-> <<"T","R","E","A","T","Y"," ","%">>,
    treaty_sum_col |->
      <<"T","R","E","A","T","Y"," ","S","U","M"," ","I","N","S","U","R","E","D">>,
    treaty_premium_col |->
      <<"T","R","E","A","T","Y"," ","P","R","E","M","I","U","M">>,
    period_of_insurance_col |->
      <<"P","E","R","I","O","D"," ","O","F"," ",
        "I","N","S","U","R","A","N","C","E">>,
    start_date_col |-> None,
    end_date_col |-> None ]

\* mapping_rules of _create_column_mapping, in dictionary order.
MappingRules(mapping) ==
  << [field |-> "policy_number", names |->
        << mapping.policy_number_col,
           <<"P","O","L","I","C","Y"," ","N","O">>,
           <<"P","O","L","I","C","Y","_","N","U","M","B","E","R">>,
           <<"P","O","L","I","C","Y">> >>],
     [field |-> "insured_name", names |->
        << mapping.insured_name_col,
           <<"I","N","S","U","R","E","D">>,
           <<"C","U","S","T","O","M","E","R","_","N","A","M","E">>,
           <<"C","L","I","E","N","T","_","N","A","M","E">> >>],
     [field |-> "sum_insured", names |->
        << mapping.sum_insured_col,
           <<"S","U","M","_","I","N","S","U","R","E","D">>,
           <<"C","O","V","E","R","A","G","E","_","A","M","O","U","N","T">>,
           <<"I","N","S","U","R","E","D","_","A","M","O","U","N","T">> >>],
     [field |-> "premium", names |->
        << mapping.premium_col,
           <<"P","R","E","M","I","U","M","_","A","M","O","U","N","T">>,
           <<"A","N","N","U","A","L","_","P","R","E","M","I","U","M">> >>],
     [field |-> "own_retention_ppn", names |->
        << mapping.own_retention_ppn_col,
           <<"O","W","N","_","R","E","T","E","N","T","I","O","N","_","P","C","T">>,
           <<"R","E","T","E","N","T","I","O","N","_","%">> >>],
     [field |-> "own_retention_sum_insured", names |->
        << mapping.own_retention_sum_col,
           <<"O","W","N","_","R","E","T","E","N","T","I","O","N","_","S","U","M">>,
           <<"R","E","T","E","N","T","I","O","N","_","S","U","M">> >>],
     [field |-> "own_retention_premium", names |->
        << mapping.own_retention_premium_col,
           <<"O","W","N","_","R","E","T","E","N","T","I","O","N","_","P","R","E","M">>,
           <<"R","E","T","E","N","T","I","O","N","_","P","R","E","M","I","U","M">> >>],
     [field |-> "treaty_ppn", names |->
        << mapping.treaty_ppn_col,
           <<"T","R","E","A","T","Y","_","P","C","T">>,
           <<"T","R","E","A","T","Y","_","%">> >>],
     [field |-> "treaty_sum_insured", names |->
        << mapping.treaty_sum_col,
           <<"T","R","E","A","T","Y","_","S","U","M">>,
           <<"T","R","E","A","T","Y","_","C","O","V","E","R","A","G","E">> >>],
     [field |-> "treaty_premium", names |->
        << mapping.treaty_premium_col,
           <<"T","R","E","A","T","Y","_","P","R","E","M">> >>],
     [field |-> "period_of_insurance", names |->
        << mapping.period_of_insurance_col,
           <<"I","N","S","U","R","A","N","C","E","_","P","E","R","I","O","D">>,
           <<"P","O","L","I","C","Y","_","P","E","R","I","O","D">> >>],
     [field |-> "insurance_period_start_date", names |->
        IF mapping.start_date_col # None
        THEN << mapping.start_date_col >> ELSE << >>],
     [field |-> "insurance_period_end_date", names |->
        IF mapping.end_date_col # None
        THEN << mapping.end_date_col >> ELSE << >>] >>

\* One alias matched against identical headers only.
MatchAliasExact(excel_columns, name) ==
  IF \E i \in DOMAIN excel_columns : excel_columns[i] = name THEN name ELSE None

\* One alias of _find_best_column_match: the identical header if present,
\* otherwise the first header (in sheet order) containing or contained in it.
MatchAlias(excel_columns, name) ==
  LET partial == { i \in DOMAIN excel_columns :
                     IsSubstr(name, excel_columns[i])
                       \/ IsSubstr(excel_columns[i], name) }
  IN  IF \E i \in DOMAIN excel_columns : excel_columns[i] = name
      THEN name
      ELSE IF partial # {}
           THEN excel_columns[CHOOSE i \in partial : \A j \in partial : i <= j]
           ELSE None

RECURSIVE FindBestColumnMatch(_, _)
FindBestColumnMatch(excel_columns, possible_names) ==
  IF possible_names = << >>
  THEN None
  ELSE LET m == MatchAlias(excel_columns, Upper(Head(possible_names)))
       IN  IF m # None
           THEN m
           ELSE FindBestColumnMatch(excel_columns, Tail(possible_names))

\* column_map after the first n mapping rules: a function header -> field;
\* a later field that selects the same header overwrites the earlier one.
RECURSIVE ColumnMapUpTo(_, _, _)
ColumnMapUpTo(excel_columns, rules, n) ==
  IF n = 0
  THEN << >>
  ELSE LET prev == ColumnMapUpTo(excel_columns, rules, n - 1)
           best == FindBestColumnMatch(excel_columns, rules[n].names)
       IN  IF best # None /\ best # << >>
           THEN [h \in (DOMAIN prev) \cup {best} |->
                   IF h = best THEN rules[n].field ELSE prev[h]]
           ELSE prev

CreateColumnMapping(excel_columns, mapping) ==
  ColumnMapUpTo(excel_columns, MappingRules(mapping),
                Len(MappingRules(mapping)))

RequiredFields ==
  << "policy_number", "insured_name", "sum_insured", "premium",
     "own_retention_ppn", "own_retention_sum_insured", "own_retention_premium",
     "treaty_ppn", "treaty_sum_insured", "treaty_premium" >>

MappedFields(column_map) == { column_map[h] : h \in DOMAIN column_map }

\* _validate_required_columns finding nothing missing, whatever the map.
ValidateNothing(column_map) == << >>

\* _validate_required_columns: the list of missing fields.
ValidateRequiredColumns(column_map) ==
  LET mapped_fields == MappedFields(column_map)
      has_period == "period_of_insurance" \in mapped_fields
      has_separate_dates ==
        /\ "insurance_period_start_date" \in mapped_fields
        /\ "insurance_period_end_date" \in mapped_fields
  IN  SelectSeq(RequiredFields, LAMBDA f : f \notin mapped_fields)
        \o (IF ~has_period /\ ~has_separate_dates
            THEN << "insurance period dates" >> ELSE << >>)

(***************************************************************************)
(* Field Sanitizer: float(), str(float), _clean_numeric_field.             *)
(***************************************************************************)
Digits == <<"0","1","2","3","4","5","6","7","8","9">>

IsDigit(c) == \E i \in DOMAIN Digits : Digits[i] = c

DigitVal(c) == (CHOOSE i \in DOMAIN Digits : Digits[i] = c) - 1

AllDigits(s) == \A i \in DOMAIN s : IsDigit(s[i])

RECURSIVE NatVal(_)
NatVal(s) ==
  IF s = << >> THEN 0
  ELSE NatVal(SubSeq(s, 1, Len(s) - 1)) * 10 + DigitVal(s[Len(s)])

RECURSIVE NatStr(_)
NatStr(n) ==
  IF n < 10 THEN << Digits[n + 1] >>
  ELSE NatStr(n \div 10) \o << Digits[(n % 10) + 1] >>

\* The value, in hundredths, of the digits before and after the point;
\* fraction digits past the second are dropped.
DecimalValue(intp, frac, neg) ==
  IF AllDigits(intp) /\ AllDigits(frac) /\ Len(intp) + Len(frac) >= 1
  THEN [ok |-> TRUE,
        value |-> (IF neg THEN 0 - 1 ELSE 1)
                    * (NatVal(intp) * 100 + NatVal(SubSeq(frac \o <<"0","0">>, 1, 2)))]
  ELSE [ok |-> FALSE, value |-> 0]

\* An unsigned decimal text split at its point, if it has at most one.
ParseDecimal(body, dots, neg) ==
  IF dots = {}
  THEN DecimalValue(body, << >>, neg)
  ELSE IF Cardinality(dots) = 1
  THEN DecimalValue(SubSeq(body, 1, (CHOOSE i \in dots : TRUE) - 1),
                    SubSeq(body, (CHOOSE i \in dots : TRUE) + 1, Len(body)), neg)
  ELSE [ok |-> FALSE, value |-> 0]

ParseSigned(body, neg) ==
  ParseDecimal(body, { i \in DOMAIN body : body[i] = "." }, neg)

ParseStripped(s) ==
  IF s # << >> /\ Head(s) \in {"+", "-"}
  THEN ParseSigned(Tail(s), Head(s) = "-")
  ELSE ParseSigned(s, FALSE)

\* Python's float(text) for plain decimal text (optional sign, digits, at most
\* one point); anything else raises ValueError (ok = FALSE).
ParseFloat(text) == ParseStripped(Strip(text))

\* str(x) of a float held in hundredths: 15000 is "150.0", 123450 is "1234.5".
FloatDigits(mag, cents) ==
  NatStr(mag \div 100) \o <<".">>
    \o (IF cents % 10 = 0
        THEN << Digits[(cents \div 10) + 1] >>
        ELSE << Digits[(cents \div 10) + 1], Digits[(cents % 10) + 1] >>)

FloatStr(v) ==
  IF v < 0 THEN <<"-">> \o FloatDigits(0 - v, (0 - v) % 100)
  ELSE FloatDigits(v, v % 100)

\* The naira sign, one character of a cell's text.
Naira == "<naira>"

\* The replacements without the one of the percent sign.
CleanNumericTextKeepPercent(cell) ==
  Strip(RemoveChar(RemoveChar(AsTypeStr(cell), ","), Naira))

\* The text of a numeric cell after the three replacements and strip().
CleanNumericText(cell) ==
  Strip(RemoveChar(RemoveChar(RemoveChar(AsTypeStr(cell), ","), Naira), "%"))

NullTexts == { << >>, <<"n","a","n">>, <<"n","u","l","l">>, <<"n","o","n","e">> }

\* The try block with the null spellings compared as written, not lowered.
ConvertNumericTextCaseSensitive(value, parsed) ==
  IF value \in NullTexts
  THEN [value |-> 0, error |-> FALSE, text |-> value]
  ELSE IF parsed.ok
       THEN [value |-> parsed.value, error |-> FALSE, text |-> value]
       ELSE [value |-> 0, error |-> TRUE, text |-> value]

\* The try block of _clean_numeric_field on one cleaned text: the float
\* stored and whether an "invalid_numeric" error is recorded.
ConvertNumericText(value, parsed) ==
  IF value = << >> \/ Lower(value) \in NullTexts
  THEN [value |-> 0, error |-> FALSE, text |-> value]
  ELSE IF parsed.ok
       THEN [value |-> parsed.value, error |-> FALSE, text |-> value]
       ELSE [value |-> 0, error |-> TRUE, text |-> value]

CleanNumericValue(value) == ConvertNumericText(value, ParseFloat(value))

\* One cell of _clean_numeric_field.
CleanNumericCell(cell) == CleanNumericValue(CleanNumericText(cell))

\* The rows 1..n in order, as a sequence of 1-based positions; the DataFrame
\* index of position i is i - 1, and its Excel row number is idx + 2.
Positions(n) == [i \in 1..n |-> i]

RowNumber(i) == (i - 1) + 2

\* The errors of _clean_numeric_field, in row order, given each row's cell
\* as cleaned.
NumericErrors(field, cells, bad) ==
  [k \in DOMAIN bad |->
     [ type |-> "ExcelValidationError",
       row_number |-> RowNumber(bad[k]),
       column_name |-> field,
       error_type |-> "invalid_numeric",
       raw_value |-> cells[bad[k]].text ]]

StoreNumericCells(df, field, cells) ==
  [ df |-> [i \in DOMAIN df |-> [df[i] EXCEPT ![field] = cells[i].value]],
    errors |-> NumericErrors(field, cells,
                 SelectSeq(Positions(Len(df)), LAMBDA i : cells[i].error)) ]

\* _clean_numeric_field(df, field): the column is replaced by floats and one
\* error is recorded, in row order, per unparseable cell.
CleanNumericField(df, field) ==
  StoreNumericCells(df, field, [i \in DOMAIN df |-> CleanNumericCell(df[i][field])])

NumericFields ==
  << "sum_insured", "premium", "own_retention_ppn", "own_retention_sum_insured",
     "own_retention_premium", "treaty_ppn", "treaty_sum_insured",
     "treaty_premium" >>

PercentageFields == << "own_retention_ppn", "treaty_ppn" >>

StringFields == << "policy_number", "insured_name" >>

\* df[field].astype(str).str.strip() followed by .replace('nan', '').
ReplaceNan(s) == IF s = <<"n","a","n">> THEN << >> ELSE s

CleanStringCell(cell) == ReplaceNan(Strip(AsTypeStr(cell)))

Columns(df) == IF df = << >> THEN {} ELSE DOMAIN df[1]

CleanStringFields(df) ==
  [i \in DOMAIN df |->
     [f \in DOMAIN df[i] |->
        IF \E k \in DOMAIN StringFields : StringFields[k] = f
        THEN CleanStringCell(df[i][f]) ELSE df[i][f]]]

\* The loop over numeric_fields from field n on: every present column is
\* cleaned in list order, its errors appended to those recorded so far.
RECURSIVE CleanNumericFieldsFrom(_, _, _)
RECURSIVE CleanNumericFieldsNext(_, _, _)
CleanNumericFieldsFrom(df, errors, n) ==
  IF n > Len(NumericFields)
  THEN [df |-> df, errors |-> errors]
  ELSE IF NumericFields[n] \in Columns(df)
       THEN CleanNumericFieldsNext(CleanNumericField(df, NumericFields[n]), errors, n)
       ELSE CleanNumericFieldsFrom(df, errors, n + 1)

CleanNumericFieldsNext(done, errors, n) ==
  CleanNumericFieldsFrom(done.df, errors \o done.errors, n + 1)

\* "invalid_percentage" errors of one column: the value is left as parsed.
PercentageErrorsAt(df, field, bad) ==
  [k \in DOMAIN bad |->
     [ type |-> "ExcelValidationError",
       row_number |-> RowNumber(bad[k]),
       column_name |-> field,
       error_type |-> "invalid_percentage",
       raw_value |-> FloatStr(df[bad[k]][field]) ]]

\* The range test without its lower bound.
PercentageErrorsAbove(df, field) ==
  PercentageErrorsAt(df, field,
    SelectSeq(Positions(Len(df)), LAMBDA i : df[i][field] > 10000))

PercentageErrors(df, field) ==
  PercentageErrorsAt(df, field,
    SelectSeq(Positions(Len(df)),
              LAMBDA i : df[i][field] < 0 \/ df[i][field] > 10000))

RECURSIVE PercentageErrorsFrom(_, _, _)
PercentageErrorsFrom(df, errors, n) ==
  IF n > Len(PercentageFields)
  THEN errors
  ELSE IF PercentageFields[n] \in Columns(df)
       THEN PercentageErrorsFrom(df,
              errors \o PercentageErrors(df, PercentageFields[n]), n + 1)
       ELSE PercentageErrorsFrom(df, errors, n + 1)

ValidatePercentages(cleaned) ==
  [df |-> cleaned.df, errors |-> PercentageErrorsFrom(cleaned.df, cleaned.errors, 1)]

\* _clean_and_validate_data.
CleanAndValidateData(df) ==
  ValidatePercentages(CleanNumericFieldsFrom(CleanStringFields(df), << >>, 1))

(***************************************************************************)
(* Period Parser: date_patterns, date_formats, _parse_single_date,         *)
(* _parse_insurance_period, _transform_period_column.                      *)
(* A date is the integer year * 10000 + month * 100 + day, which orders    *)
(* dates as the calendar does.                                             *)
(***************************************************************************)
MakeDate(y, m, d) == y * 10000 + m * 100 + d

IsLeap(y) == (y % 4 = 0 /\ y % 100 # 0) \/ y % 400 = 0

DaysInMonth(y, m) ==
  IF m = 2 THEN (IF IsLeap(y) THEN 29 ELSE 28)
  ELSE IF m \in {4, 6, 9, 11} THEN 30 ELSE 31

DigitsAt(s, i, n) ==
  i >= 1 /\ i + n - 1 <= Len(s) /\ \A k \in i..(i + n - 1) : IsDigit(s[k])

CharAt(s, i, c) == i >= 1 /\ i <= Len(s) /\ s[i] = c

\* \s* of the patterns: greedy, and nothing after it can match whitespace.
RECURSIVE SkipSpaces(_, _)
SkipSpaces(s, i) ==
  IF i <= Len(s) /\ s[i] \in Whitespace THEN SkipSpaces(s, i + 1) ELSE i

\* self.date_patterns, in list order: the separator inside a date and
\* whether the four-digit year comes first (\d{4} \d{1,2} \d{1,2}) or last.
DatePatterns ==
  << [sep |-> "/", year_first |-> FALSE],
     [sep |-> "-", year_first |-> TRUE],
     [sep |-> "-", year_first |-> FALSE],
     [sep |-> ".", year_first |-> FALSE] >>

\* The lengths tried for the two \d{1,2} runs of a date, greedy first.
RunChoices == << <<2, 2>>, <<2, 1>>, <<1, 2>>, <<1, 1>> >>

\* The position just past three digit runs of lengths n1, n2, n3 separated
\* by sep and starting at i, or 0 when the text there is not of that shape.
RunsEnd(s, i, sep, n1, n2, n3) ==
  IF /\ DigitsAt(s, i, n1)
     /\ CharAt(s, i + n1, sep)
     /\ DigitsAt(s, i + n1 + 1, n2)
     /\ CharAt(s, i + n1 + 1 + n2, sep)
     /\ DigitsAt(s, i + n1 + n2 + 2, n3)
  THEN i + n1 + n2 + 2 + n3
  ELSE 0

\* The position just past a date of the pattern that starts at i with the
\* run lengths of the choice, or 0 when that does not match.
DateEnd(s, i, pat, choice) ==
  IF pat.year_first
  THEN RunsEnd(s, i, pat.sep, 4, choice[1], choice[2])
  ELSE RunsEnd(s, i, pat.sep, choice[1], choice[2], 4)

NoGroups == [matched |-> FALSE, start_str |-> << >>, end_str |-> << >>]

\* The second group, which starts at k after the hyphen and its whitespace.
SecondGroup(s, i, e1, k, e2) ==
  IF e2 > 0
  THEN [matched |-> TRUE,
        start_str |-> SubSeq(s, i, e1 - 1), end_str |-> SubSeq(s, k, e2 - 1)]
  ELSE NoGroups

AfterHyphen(s, i, e1, k, pat, b) ==
  SecondGroup(s, i, e1, k, DateEnd(s, k, pat, RunChoices[b]))

\* \s*-\s* after the first group, which ended before e1; j is at the hyphen.
Hyphen(s, i, e1, j, pat, b) ==
  IF e1 > 0 /\ CharAt(s, j, "-")
  THEN AfterHyphen(s, i, e1, SkipSpaces(s, j + 1), pat, b)
  ELSE NoGroups

AfterFirstGroup(s, i, e1, pat, b) == Hyphen(s, i, e1, SkipSpaces(s, e1), pat, b)

\* The match of a pattern anchored at i for run choices a (first date) and
\* b (second date): the two captured groups, or no match.
GroupsAt(s, i, pat, a, b) ==
  AfterFirstGroup(s, i, DateEnd(s, i, pat, RunChoices[a]), pat, b)

\* t comes no later than u in the order re tries matches: leftmost start,
\* then the run choices of the first and of the second date.
TriedBefore(t, u) ==
  \/ t[1] < u[1]
  \/ t[1] = u[1] /\ t[2] < u[2]
  \/ t[1] = u[1] /\ t[2] = u[2] /\ t[3] <= u[3]

FirstHit(s, pat, hits) ==
  IF hits = {}
  THEN NoGroups
  ELSE GroupsAt(s, (CHOOSE t \in hits : \A u \in hits : TriedBefore(t, u))[1], pat,
                (CHOOSE t \in hits : \A u \in hits : TriedBefore(t, u))[2],
                (CHOOSE t \in hits : \A u \in hits : TriedBefore(t, u))[3])

\* re.search(pattern, s): the leftmost start, and there the first pair of
\* run choices in backtracking order.
ReSearch(s, pat) ==
  FirstHit(s, pat,
    { t \in (1..Len(s)) \X (1..Len(RunChoices)) \X (1..Len(RunChoices)) :
        GroupsAt(s, t[1], pat, t[2], t[3]).matched })

\* The formats with the month-first slash format tried before the
\* day-first one.
DateFormatsMonthFirst ==
  << [sep |-> "/", order |-> <<"m", "d", "Y">>],
     [sep |-> "/", order |-> <<"d", "m", "Y">>],
     [sep |-> "-", order |-> <<"Y", "m", "d">>],
     [sep |-> "-", order |-> <<"d", "m", "Y">>],
     [sep |-> ".", order |-> <<"d", "m", "Y">>],
     [sep |-> "/", order |-> <<"Y", "m", "d">>] >>

\* self.date_formats, in list order: the separator and the order of the
\* directives (%d, %m, %Y).
DateFormats ==
  << [sep |-> "/", order |-> <<"d", "m", "Y">>],
     [sep |-> "/", order |-> <<"m", "d", "Y">>],
     [sep |-> "-", order |-> <<"Y", "m", "d">>],
     [sep |-> "-", order |-> <<"d", "m", "Y">>],
     [sep |-> ".", order |-> <<"d", "m", "Y">>],
     [sep |-> "/", order |-> <<"Y", "m", "d">>] >>

RECURSIVE SplitOn(_, _)
RECURSIVE SplitAt(_, _, _)
SplitOn(s, sep) == SplitAt(s, sep, { i \in DOMAIN s : s[i] = sep })

SplitAt(s, sep, at) ==
  IF at = {} THEN << s >>
  ELSE << SubSeq(s, 1, (CHOOSE x \in at : \A y \in at : x <= y) - 1) >>
         \o SplitOn(SubSeq(s, (CHOOSE x \in at : \A y \in at : x <= y) + 1, Len(s)),
                    sep)

\* The part of a split date text that the directive d of the format reads.
Part(parts, fmt, d) == parts[CHOOSE k \in 1..3 : fmt.order[k] = d]

\* The calendar check of strptime: year >= 1 and the day exists in the month.
CalendarDate(y, m, d) ==
  IF y >= 1 /\ m \in 1..12 /\ d >= 1 /\ d <= DaysInMonth(y, m)
  THEN [ok |-> TRUE, date |-> MakeDate(y, m, d)]
  ELSE [ok |-> FALSE, date |-> 0]

\* %d and %m take one or two digits, %Y exactly four.
DirectivesMatch(yy, mm, dd) ==
  IF /\ yy # << >> /\ mm # << >> /\ dd # << >>
     /\ AllDigits(yy) /\ AllDigits(mm) /\ AllDigits(dd)
     /\ Len(dd) <= 2 /\ Len(mm) <= 2 /\ Len(yy) = 4
  THEN CalendarDate(NatVal(yy), NatVal(mm), NatVal(dd))
  ELSE [ok |-> FALSE, date |-> 0]

StrpParts(parts, fmt) ==
  IF Len(parts) = 3
  THEN DirectivesMatch(Part(parts, fmt, "Y"), Part(parts, fmt, "m"),
                       Part(parts, fmt, "d"))
  ELSE [ok |-> FALSE, date |-> 0]

\* datetime.strptime(s, fmt).date(); ok = FALSE is its ValueError.
StrpTime(s, fmt) == StrpParts(SplitOn(s, fmt.sep), fmt)

\* _parse_single_date giving up after the format that was tried.
ParseSingleDateGivesUp(date_str, n, parsed) ==
  IF parsed.ok THEN parsed ELSE [ok |-> FALSE, date |-> 0]

\* _parse_single_date: the first format that parses, or None (ok = FALSE).
RECURSIVE ParseSingleDateFrom(_, _)
RECURSIVE ParseSingleDateTried(_, _, _)
ParseSingleDateFrom(date_str, n) ==
  IF n > Len(DateFormats)
  THEN [ok |-> FALSE, date |-> 0]
  ELSE ParseSingleDateTried(date_str, n, StrpTime(date_str, DateFormats[n]))

ParseSingleDateTried(date_str, n, parsed) ==
  IF parsed.ok THEN parsed ELSE ParseSingleDateFrom(date_str, n + 1)

ParseSingleDate(date_str) == ParseSingleDateFrom(Strip(date_str), 1)

\* _parse_insurance_period from pattern n on: a pattern that matches but
\* whose dates do not both parse is passed over for the next pattern;
\* ok = FALSE is the ValueError raised after the last pattern.
RECURSIVE ParseInsurancePeriodFrom(_, _)
RECURSIVE ParseInsurancePeriodDates(_, _, _, _, _)
RECURSIVE ParseInsurancePeriodMatch(_, _, _)
ParseInsurancePeriodFrom(period_str, n) ==
  IF n > Len(DatePatterns)
  THEN [ok |-> FALSE, start_date |-> 0, end_date |-> 0]
  ELSE ParseInsurancePeriodMatch(period_str, n, ReSearch(period_str, DatePatterns[n]))

ParseInsurancePeriodMatch(period_str, n, match) ==
  ParseInsurancePeriodDates(period_str, n, match.matched,
                            ParseSingleDate(match.start_str),
                            ParseSingleDate(match.end_str))

ParseInsurancePeriodDates(period_str, n, matched, start_date, end_date) ==
  IF matched /\ start_date.ok /\ end_date.ok
  THEN [ok |-> TRUE, start_date |-> start_date.date, end_date |-> end_date.date]
  ELSE ParseInsurancePeriodFrom(period_str, n + 1)

ParseInsurancePeriod(period_str) ==
  ParseInsurancePeriodFrom(Strip(period_str), 1)

\* The fallback range of _transform_period_column.
FallbackStart == MakeDate(2024, 1, 1)

FallbackEnd == MakeDate(2024, 12, 31)

\* A row with its start and end date columns added and its period dropped.
DatedRow(row, parsed) ==
  [f \in ((DOMAIN row) \ {"period_of_insurance"})
           \cup {"insurance_period_start_date", "insurance_period_end_date"} |->
     IF f = "insurance_period_start_date"
     THEN (IF parsed.ok THEN parsed.start_date ELSE FallbackStart)
     ELSE IF f = "insurance_period_end_date"
     THEN (IF parsed.ok THEN parsed.end_date ELSE FallbackEnd)
     ELSE row[f]]

\* The errors with the period text stripped before it is recorded.
PeriodErrorsStripped(df, bad) ==
  [k \in DOMAIN bad |->
     [ type |-> "ExcelValidationError",
       row_number |-> RowNumber(bad[k]),
       column_name |-> "period_of_insurance",
       error_type |-> "invalid_date_format",
       raw_value |-> Strip(AsTypeStr(df[bad[k]]["period_of_insurance"])) ]]

PeriodErrors(df, bad) ==
  [k \in DOMAIN bad |->
     [ type |-> "ExcelValidationError",
       row_number |-> RowNumber(bad[k]),
       column_name |-> "period_of_insurance",
       error_type |-> "invalid_date_format",
       raw_value |-> AsTypeStr(df[bad[k]]["period_of_insurance"]) ]]

StorePeriods(df, parsed) ==
  [ df |-> [i \in DOMAIN df |-> DatedRow(df[i], parsed[i])],
    errors |-> PeriodErrors(df,
                 SelectSeq(Positions(Len(df)), LAMBDA i : ~parsed[i].ok)) ]

\* _transform_period_column: start and end date columns added, the period
\* column dropped, one "invalid_date_format" error per unparseable row.
TransformPeriodColumn(df) ==
  IF "period_of_insurance" \notin Columns(df)
  THEN [df |-> df, errors |-> << >>]
  ELSE StorePeriods(df,
         [i \in DOMAIN df |->
            ParseInsurancePeriod(AsTypeStr(df[i]["period_of_insurance"]))])

(***************************************************************************)
(* ExcelParser.parse_excel_file.                                           *)
(* A file is [readable, headers, rows]: the header texts of sheet 0 and    *)
(* its data rows, each row a sequence of raw cells aligned with headers.   *)
(***************************************************************************)
\* df.columns.str.strip().str.upper()
StandardizeColumns(headers) == [i \in DOMAIN headers |-> Upper(Strip(headers[i]))]

\* The position of the column renamed to field f.
ColumnOf(columns, column_map, f) ==
  CHOOSE i \in DOMAIN columns :
    columns[i] \in DOMAIN column_map /\ column_map[columns[i]] = f

\* df.rename(columns=column_map): the cell of each mapped field.  Columns the
\* map leaves out keep their header as name and are never read afterwards.
RenameColumns(columns, rows, column_map) ==
  [r \in DOMAIN rows |->
     [f \in MappedFields(column_map) |-> rows[r][ColumnOf(columns, column_map, f)]]]

\* df.dropna(subset=['policy_number', 'insured_name']): the positions kept.
DropNa(df) ==
  SelectSeq(Positions(Len(df)),
            LAMBDA i : df[i]["policy_number"] # NaN /\ df[i]["insured_name"] # NaN)

\* The except branch of parse_excel_file: ValueError("Excel parsing failed").
ParseRaised(message) ==
  [raised |-> TRUE, message |-> message, df |-> << >>, errors |-> << >>]

\* return valid_df, errors: the rows kept, each with its index label.
ParseReturn(df, kept, errors) ==
  [ raised |-> FALSE, message |-> "",
    df |-> [k \in DOMAIN kept |-> [idx |-> kept[k] - 1, row |-> df[kept[k]]]],
    errors |-> errors ]

\* dropna raises KeyError for a subset column the frame lacks, and the
\* except branch turns it into the ValueError.
ParseDated(errors, dated) ==
  IF dated.df # << >> /\ ~({"policy_number", "insured_name"} \subseteq Columns(dated.df))
  THEN ParseRaised("Excel parsing failed: KeyError")
  ELSE ParseReturn(dated.df, DropNa(dated.df), errors \o dated.errors)

ParseCleaned(cleaned) ==
  ParseDated(cleaned.errors, TransformPeriodColumn(cleaned.df))

ParseMapped(columns, rows, column_map) ==
  IF ValidateRequiredColumns(column_map) # << >>
  THEN ParseRaised("Excel parsing failed: Missing required columns")
  ELSE ParseCleaned(CleanAndValidateData(RenameColumns(columns, rows, column_map)))

ParseColumns(columns, rows, mapping) ==
  ParseMapped(columns, rows, CreateColumnMapping(columns, mapping))

\* parse_excel_file: raised = TRUE is the ValueError "Excel parsing failed";
\* otherwise the valid rows and the cell-level errors in the order recorded.
ParseExcelFile(file, mapping) ==
  IF ~file.readable
  THEN ParseRaised("Excel parsing failed: cannot read file")
  ELSE ParseColumns(StandardizeColumns(file.headers), file.rows, mapping)

(***************************************************************************)
(* InsurancePolicyBase validation and _convert_row_to_policy.              *)
(***************************************************************************)
MaxPolicyNumberLen == 50

MaxInsuredNameLen == 200

\* row.get(...) of a date column the row lacks: None, which no calendar
\* date equals.
NoDate == MakeDate(0, 0, 0)

\* row.get(field, default)
RowGet(row, field, default) == IF field \in DOMAIN row THEN row[field] ELSE default

\* InsurancePolicyBase with the bound of sum_insured relaxed from gt to ge.
PolicyValidZeroSum(p) ==
  /\ Len(p.policy_number) >= 1 /\ Len(p.policy_number) <= MaxPolicyNumberLen
  /\ Len(p.insured_name) >= 1 /\ Len(p.insured_name) <= MaxInsuredNameLen
  /\ p.sum_insured >= 0
  /\ p.premium > 0
  /\ p.own_retention_ppn >= 0 /\ p.own_retention_ppn <= 10000
  /\ p.own_retention_sum_insured >= 0
  /\ p.own_retention_premium >= 0
  /\ p.treaty_ppn >= 0 /\ p.treaty_ppn <= 10000
  /\ p.treaty_sum_insured >= 0
  /\ p.treaty_premium >= 0
  /\ p.insurance_period_start_date # NoDate
  /\ p.insurance_period_end_date # NoDate
  /\ ~(p.insurance_period_end_date <= p.insurance_period_start_date)

\* The Field constraints and root validator of InsurancePolicyBase.
PolicyValid(p) ==
  /\ Len(p.policy_number) >= 1 /\ Len(p.policy_number) <= MaxPolicyNumberLen
  /\ Len(p.insured_name) >= 1 /\ Len(p.insured_name) <= MaxInsuredNameLen
  /\ p.sum_insured > 0
  /\ p.premium > 0
  /\ p.own_retention_ppn >= 0 /\ p.own_retention_ppn <= 10000
  /\ p.own_retention_sum_insured >= 0
  /\ p.own_retention_premium >= 0
  /\ p.treaty_ppn >= 0 /\ p.treaty_ppn <= 10000
  /\ p.treaty_sum_insured >= 0
  /\ p.treaty_premium >= 0
  /\ p.insurance_period_start_date # NoDate
  /\ p.insurance_period_end_date # NoDate
  /\ ~(p.insurance_period_end_date <= p.insurance_period_start_date)

\* policy_data of _convert_row_to_policy.
PolicyData(row) ==
  [ policy_number |-> Strip(RowGet(row, "policy_number", << >>)),
    insured_name |-> Strip(RowGet(row, "insured_name", << >>)),
    sum_insured |-> RowGet(row, "sum_insured", 0),
    premium |-> RowGet(row, "premium", 0),
    own_retention_ppn |-> RowGet(row, "own_retention_ppn", 0),
    own_retention_sum_insured |-> RowGet(row, "own_retention_sum_insured", 0),
    own_retention_premium |-> RowGet(row, "own_retention_premium", 0),
    treaty_ppn |-> RowGet(row, "treaty_ppn", 0),
    treaty_sum_insured |-> RowGet(row, "treaty_sum_insured", 0),
    treaty_premium |-> RowGet(row, "treaty_premium", 0),
    insurance_period_start_date |->
      RowGet(row, "insurance_period_start_date", NoDate),
    insurance_period_end_date |->
      RowGet(row, "insurance_period_end_date", NoDate) ]

\* The checks of _convert_row_to_policy and InsurancePolicyCreate(**policy_data).
CheckPolicyData(policy_data) ==
  IF policy_data.policy_number = << >>
  THEN [ok |-> FALSE, policy |-> policy_data,
        message |-> "Data conversion error: Policy number is required"]
  ELSE IF policy_data.insured_name = << >>
  THEN [ok |-> FALSE, policy |-> policy_data,
        message |-> "Data conversion error: Insured name is required"]
  ELSE IF ~PolicyValid(policy_data)
  THEN [ok |-> FALSE, policy |-> policy_data,
        message |-> "Data conversion error: validation error"]
  ELSE [ok |-> TRUE, policy |-> policy_data, message |-> ""]

\* _convert_row_to_policy: the policy, or the ValueError it raises.
ConvertRowToPolicy(row) == CheckPolicyData(PolicyData(row))

\* The outcome of the conversion loop given each row's conversion.
CollectConverted(df, converted, good, bad) ==
  [ policies_data |-> [k \in DOMAIN good |-> converted[good[k]].policy],
    sources |-> good,
    conversion_errors |->
      [k \in DOMAIN bad |->
         [ type |-> "str", kind |-> "conversion",
           row_number |-> df[bad[k]].idx + 2,
           message |-> converted[bad[k]].message ]] ]

SplitConverted(df, converted) ==
  CollectConverted(df, converted,
    SelectSeq(Positions(Len(df)), LAMBDA k : converted[k].ok),
    SelectSeq(Positions(Len(df)), LAMBDA k : ~converted[k].ok))

\* The conversion loop of ingest_excel_file: policies_data holds the
\* converted rows in file order (sources: the position in df each came
\* from), conversion_errors one "Row n: ..." text per rejected row.
ConvertRows(df) ==
  SplitConverted(df, [k \in DOMAIN df |-> ConvertRowToPolicy(df[k].row)])

(***************************************************************************)
(* Persistence: get_database_manager, DatabaseManager.get_session,         *)
(* InsurancePolicyRepository.bulk_create_policies (one loop iteration),    *)
(* AuditRepository.log_data_ingestion.                                     *)
(* The global db_manager is "none" (never created), "uninit" (created,     *)
(* initialize() failed) or "ready".                                        *)
(***************************************************************************)
\* get_database_manager: creates and initializes the manager only when the
\* global is None; init_ok is whether initialize() succeeds if it is run.
GetDatabaseManager(d, init_ok) ==
  IF d = "none"
  THEN (IF init_ok THEN [dbm |-> "ready", raised |-> FALSE]
                   ELSE [dbm |-> "uninit", raised |-> TRUE])
  ELSE [dbm |-> d, raised |-> FALSE]

\* get_session: initialize() is run first when the manager is not initialized.
GetSession(d, init_ok) ==
  IF d = "ready" THEN [dbm |-> d, raised |-> FALSE]
  ELSE IF init_ok THEN [dbm |-> "ready", raised |-> FALSE]
  ELSE [dbm |-> d, raised |-> TRUE]

Min(a, b) == IF a <= b THEN a ELSE b

VARIABLE
  first              \* the run before this one: its manager, outcome and history

\* The unique constraint meeting, in a rerun, the records of the run before
\* as well: the table was not empty after all.
UniqueViolationAcrossRuns(stored, policies, built) ==
  \/ \E k \in built : \E q \in stored : q.policy_number = policies[k].policy_number
  \/ \E k, l \in built : k # l /\ policies[k].policy_number = policies[l].policy_number
  \/ /\ first.run = 2
     /\ \E k \in built : \E q \in first.store :
          q.policy_number = policies[k].policy_number

\* The unique constraint comparing the policies of the batch with each other
\* only, not with the table.
UniqueViolationInBatch(stored, policies, built) ==
  \E k, l \in built : k # l /\ policies[k].policy_number = policies[l].policy_number

\* The unique constraint on insurance_policies.policy_number, checked at
\* commit: a number already stored, or twice among the policies added.
UniqueViolation(stored, policies, built) ==
  \/ \E k \in built : \E q \in stored : q.policy_number = policies[k].policy_number
  \/ \E k, l \in built : k # l /\ policies[k].policy_number = policies[l].policy_number

\* failed_count += len(batch) of the outer except branch, miscounted as one.
BatchFailuresOne(batch) == IF batch = {} THEN 0 ELSE 1

\* failed_count += len(batch) of the outer except branch.
BatchFailures(batch) == Cardinality(batch)

\* A commit that fails after its first insert and is not rolled back.
SessionRecordsNoRollback(policies, built, committed) ==
  IF committed
  THEN { policies[k] : k \in built }
  ELSE { policies[k] : k \in { b \in built : \A c \in built : b <= c } }

\* What the session leaves in the table: the records added when the commit
\* succeeds, nothing after the rollback of get_session.
SessionRecords(policies, built, committed) ==
  IF committed THEN { policies[k] : k \in built } ELSE {}

\* One iteration of the batch loop of bulk_create_policies, for the batch
\* starting at offset i.  session_ok: get_session() succeeded; failing: the
\* positions whose InsurancePolicy(...) construction raises; commit_ok: the
\* commit meets no database error other than the unique constraint.
ProcessBatch(stored, policies, i, size, counts, session_ok, failing, commit_ok) ==
  LET batch == (i + 1)..Min(i + size, Len(policies))
      built == IF session_ok THEN batch \ failing ELSE {}
      dropped == IF session_ok THEN batch \cap failing ELSE {}
      dropped_seq == SelectSeq(Positions(Len(policies)), LAMBDA k : k \in dropped)
      policy_errors ==
        [k \in DOMAIN dropped_seq |->
           [ type |-> "str", kind |-> "policy",
             policy_number |-> policies[dropped_seq[k]].policy_number ]]
      committed == /\ session_ok /\ built # {}
                   /\ commit_ok /\ ~UniqueViolation(stored, policies, built)
      raised == ~session_ok \/ (built # {} /\ ~committed)
      batch_error == [type |-> "str", kind |-> "batch", batch |-> (i \div size) + 1]
      after == stored \cup SessionRecords(policies, built, committed)
  IN  [ store |-> after,
        successful_count |-> counts.successful_count
                               + (IF committed THEN Cardinality(built) ELSE 0),
        failed_count |-> counts.failed_count + Cardinality(dropped)
                           + (IF raised THEN BatchFailures(batch) ELSE 0),
        error_messages |-> counts.error_messages \o policy_errors
                             \o (IF raised THEN << batch_error >> ELSE << >>),
        next_i |-> i + size,
        trace |-> [ first |-> i + 1, batch |-> batch, built |-> built,
                    committed |-> committed, raised |-> raised,
                    commit_fault |-> session_ok /\ built # {} /\ ~commit_ok,
                    failed_before |-> counts.failed_count,
                    store_before |-> stored, store_after |-> after ] ]

\* log_data_ingestion: outcome "ok" writes the entry and returns;
\* "fail_before_commit" raises with nothing written (get_session, add or
\* commit failed); "fail_after_commit" raises from refresh() with the entry
\* already committed.
AuditOutcomes == {"ok", "fail_before_commit", "fail_after_commit"}

\* log_data_ingestion returning without having added the entry.
LogNothing(d, log, entry, init_ok, outcome) ==
  [dbm |-> GetSession(d, init_ok).dbm, audit_log |-> log,
   raised |-> GetSession(d, init_ok).raised \/ outcome # "ok"]

LogDataIngestion(d, log, entry, init_ok, outcome) ==
  LET session == GetSession(d, init_ok)
  IN  IF session.raised
      THEN [dbm |-> session.dbm, audit_log |-> log, raised |-> TRUE]
      ELSE [ dbm |-> session.dbm,
             audit_log |-> IF outcome = "fail_before_commit"
                           THEN log ELSE Append(log, entry),
             raised |-> outcome # "ok" ]

(***************************************************************************)
(* InsuranceDataIngestionPipeline.ingest_excel_file.                       *)
(***************************************************************************)
\* "Determine status" of ingest_excel_file.
DetermineStatus(successful, failed) ==
  IF failed = 0 THEN "success"
  ELSE IF successful > 0 THEN "partial"
  ELSE "failed"

\* "; ".join(total_errors) if total_errors else None: the join raises
\* TypeError when an item is not a str.
JoinRaises(total_errors) ==
  total_errors # << >>
    /\ \E k \in DOMAIN total_errors : total_errors[k].type # "str"

\* str(e) of one item of total_errors.
StrOf(e) == IF e.type = "str" THEN e ELSE [type |-> "str", kind |-> "repr", of |-> e]

\* The report returned by the except branch.
FailedReport(message) ==
  [ total_rows |-> 0, processed_rows |-> 0, failed_rows |-> 0,
    status |-> "failed",
    errors |-> << [type |-> "str", kind |-> "exception", message |-> message] >>,
    warnings |-> << >> ]

\* The audit entry written by the except branch.
FailedEntry(message) ==
  [ rows_processed |-> 0, rows_successful |-> 0, rows_failed |-> 0,
    status |-> "failed", error_details |-> message ]

\* The failure log of the except branch without its try/except.
FailureLogUnguarded(log_raised) == log_raised

\* The try/except around the failure log of the except branch: whether an
\* exception of that log leaves ingest_excel_file.
FailureLogEscapes(log_raised) == FALSE

(***************************************************************************)
(* Inputs of a run: the uploaded sheets and rows the model draws from.     *)
(***************************************************************************)
\* The header row of a sheet that uses the default column names (the first
\* one as typed by a user, to be standardized).
StandardHeaders ==
  << <<" ","P","o","l","i","c","y"," ","N","u","m","b","e","r"," ">>,
     <<"I","N","S","U","R","E","D"," ","N","A","M","E">>,
     <<"S","U","M"," ","I","N","S","U","R","E","D">>,
     <<"P","R","E","M","I","U","M">>,
     <<"O","W","N"," ","R","E","T","E","N","T","I","O","N"," ","%">>,
     <<"O","W","N"," ","R","E","T","E","N","T","I","O","N"," ","S","U","M"," ","I","N","S","U","R","E","D">>,
     <<"O","W","N"," ","R","E","T","E","N","T","I","O","N"," ","P","R","E","M","I","U","M">>,
     <<"T","R","E","A","T","Y"," ","%">>,
     <<"T","R","E","A","T","Y"," ","S","U","M"," ","I","N","S","U","R","E","D">>,
     <<"T","R","E","A","T","Y"," ","P","R","E","M","I","U","M">>,
     <<"P","E","R","I","O","D"," ","O","F"," ","I","N","S","U","R","A","N","C","E">> >>

\* A well-formed data row, aligned with StandardHeaders.
GoodRow ==
  << <<"P","1">>,
     <<" ","A","c","m","e"," ","L","t","d"," ">>,
     <<"1","0","0">>,
     <<"1","0">>,
     <<"4","0","%">>,
     <<"4","0">>,
     <<"4">>,
     <<"6","0">>,
     <<"6","0",".","0","0">>,
     <<"6">>,
     <<"0","1","/","0","1","/","2","0","2","4"," ","-"," ","3","1","/","1","2","/","2","0","2","4">> >>

WithCell(row, col, cell) == [row EXCEPT ![col] = cell]

\* The rows a sheet is made of: a well-formed row under two policy numbers,
\* and rows with one defect each.
RowKinds ==
  { WithCell(GoodRow, 3, <<Naira,"1",",","0","0","0">>),
    WithCell(GoodRow, 1, <<"P","2">>),
    WithCell(GoodRow, 2, NaN),
    WithCell(GoodRow, 1, <<" ">>),
    WithCell(GoodRow, 3, <<"a","b","c">>),
    WithCell(GoodRow, 8, <<"1","5","0">>),
    WithCell(GoodRow, 11, <<"3","1","/","1","2","/","2","0","2","4"," ","-"," ","0","1","/","0","1","/","2","0","2","4">>),
    WithCell(GoodRow, 11, NaN) }

RowSeqs == UNION { [1..n -> RowKinds] : n \in 0..MaxRows }

RemoveAt(seq, k) == SubSeq(seq, 1, k - 1) \o SubSeq(seq, k + 1, Len(seq))

\* Readable sheets with every default column; sheets lacking one column;
\* and bytes that pandas cannot read.
Files ==
  { [readable |-> TRUE, headers |-> StandardHeaders, rows |-> rows] :
      rows \in RowSeqs }
    \cup { [readable |-> TRUE, headers |-> RemoveAt(StandardHeaders, k),
            rows |-> << RemoveAt(GoodRow, k) >>] : k \in DOMAIN StandardHeaders }
    \cup { [readable |-> FALSE, headers |-> << >>, rows |-> << >>] }

\* A policy stored by an earlier run, under the policy number of GoodRow.
StoredPolicy ==
  [ policy_number |-> <<"P","1">>,
    insured_name |-> <<"A","c","m","e"," ","L","t","d">>,
    sum_insured |-> 10000, premium |-> 1000,
    own_retention_ppn |-> 4000, own_retention_sum_insured |-> 4000,
    own_retention_premium |-> 400,
    treaty_ppn |-> 6000, treaty_sum_insured |-> 6000, treaty_premium |-> 600,
    insurance_period_start_date |-> MakeDate(2024, 1, 1),
    insurance_period_end_date |-> MakeDate(2024, 12, 31) ]

InitialStores == { {}, {StoredPolicy} }

(***************************************************************************)
(* One run of ingest_excel_file(file_content, filename, request).          *)
(***************************************************************************)
VARIABLES
  pc,                \* position in ingest_excel_file
  file,              \* file_content, as read by pandas
  batch_size,        \* request.batch_size
  dbm,               \* the global db_manager
  store,             \* table insurance_policies
  store0,            \* the table when the run started
  audit_log,         \* table data_ingestion_logs: the entries of this run
  df,                \* valid rows returned by parse_excel_file
  parsing_errors,
  policies_data,
  sources,           \* position in df of each item of policies_data
  conversion_errors,
  i,                 \* offset of the next batch in bulk_create_policies
  counts,            \* successful_count, failed_count, error_messages
  batches,           \* the loop iterations of bulk_create_policies so far
  audit_calls,       \* how each call of log_data_ingestion ended
  exc,               \* text of the exception caught by the outer handler
  report,            \* the ExcelIngestionResponse returned
  call               \* a parser function called on its own: argument and result

vars == << pc, file, batch_size, dbm, store, store0, audit_log, df,
           parsing_errors, policies_data, sources, conversion_errors, i,
           counts, batches, audit_calls, exc, report, first, call >>

NoReport ==
  [ total_rows |-> 0, processed_rows |-> 0, failed_rows |-> 0,
    status |-> "none", errors |-> << >>, warnings |-> << >> ]

\* No parser function is being called on its own.
NoCall == [fn |-> "none"]

\* The state in which ingest_excel_file is entered.
InitRun(files) ==
  /\ pc = "start"
  /\ file \in files
  /\ batch_size \in 1..MaxBatch
  /\ dbm \in {"none", "uninit", "ready"}
  /\ store \in InitialStores
  /\ store0 = store
  /\ audit_log = << >>
  /\ df = << >>
  /\ parsing_errors = << >>
  /\ policies_data = << >>
  /\ sources = << >>
  /\ conversion_errors = << >>
  /\ i = 0
  /\ counts = [successful_count |-> 0, failed_count |-> 0, error_messages |-> << >>]
  /\ batches = << >>
  /\ audit_calls = << >>
  /\ exc = ""
  /\ report = NoReport
  /\ call = NoCall

\* No run came before this one.
NoFirst == [run |-> 1]

Init == InitRun(Files) /\ first = NoFirst

\* policy_repo = await get_policy_repository(); audit_repo = await
\* get_audit_repository()
GetRepositories ==
  /\ pc = "start"
  /\ \E init_ok \in BOOLEAN :
       LET got == GetDatabaseManager(dbm, init_ok)
       IN  /\ dbm' = got.dbm
           /\ pc' = IF got.raised THEN "except" ELSE "parse"
           /\ exc' = IF got.raised THEN "database initialization failed" ELSE exc
  /\ UNCHANGED << file, batch_size, store, store0, audit_log, df, parsing_errors,
                  policies_data, sources, conversion_errors, i, counts, batches,
                  audit_calls, report >>
  /\ UNCHANGED << first, call >>

\* df, parsing_errors = await self.excel_parser.parse_excel_file(...)
ParseFile ==
  /\ pc = "parse"
  /\ \E parsed \in { ParseExcelFile(file, DefaultMapping) } :
         /\ pc' = IF parsed.raised THEN "except" ELSE "convert"
         /\ exc' = IF parsed.raised THEN parsed.message ELSE exc
         /\ df' = parsed.df
         /\ parsing_errors' = parsed.errors
  /\ UNCHANGED << file, batch_size, dbm, store, store0, audit_log, policies_data,
                  sources, conversion_errors, i, counts, batches, audit_calls,
                  report >>
  /\ UNCHANGED << first, call >>

\* if df.empty: raise ...; then the conversion loop, up to the call of
\* bulk_create_policies.
ConvertDataFrame ==
  /\ pc = "convert"
  /\ \E converted \in { ConvertRows(df) } :
         IF df = << >>
         THEN /\ pc' = "except"
              /\ exc' = "No valid data found in Excel file"
              /\ UNCHANGED << policies_data, sources, conversion_errors >>
         ELSE /\ pc' = "bulk"
              /\ policies_data' = converted.policies_data
              /\ sources' = converted.sources
              /\ conversion_errors' = converted.conversion_errors
              /\ exc' = exc
  /\ UNCHANGED << file, batch_size, dbm, store, store0, audit_log, df,
                  parsing_errors, i, counts, batches, audit_calls, report >>
  /\ UNCHANGED << first, call >>

\* One iteration of `for i in range(0, len(policies_data), batch_size)`.
BulkCreateBatch ==
  /\ pc = "bulk"
  /\ i < Len(policies_data)
  /\ \E init_ok \in BOOLEAN, commit_ok \in BOOLEAN,
        failing \in SUBSET ((i + 1)..Min(i + batch_size, Len(policies_data))) :
     \E done \in { ProcessBatch(store, policies_data, i, batch_size, counts,
                                 ~GetSession(dbm, init_ok).raised, failing,
                                 commit_ok) } :
           /\ dbm' = GetSession(dbm, init_ok).dbm
           /\ store' = done.store
           /\ counts' = [ successful_count |-> done.successful_count,
                          failed_count |-> done.failed_count,
                          error_messages |-> done.error_messages ]
           /\ i' = done.next_i
           /\ batches' = Append(batches, done.trace)
  /\ UNCHANGED << pc, file, batch_size, store0, audit_log, df, parsing_errors,
                  policies_data, sources, conversion_errors, audit_calls, exc,
                  report >>
  /\ UNCHANGED << first, call >>

\* bulk_create_policies has returned: metrics, status, the audit entry and
\* the report of the try branch.
LogAndReturn ==
  /\ pc = "bulk"
  /\ i >= Len(policies_data)
  /\ LET total_rows == Len(df)
         total_errors == parsing_errors \o conversion_errors \o counts.error_messages
         status == DetermineStatus(counts.successful_count, counts.failed_count)
         entry == [ rows_processed |-> total_rows,
                    rows_successful |-> counts.successful_count,
                    rows_failed |-> counts.failed_count,
                    status |-> status,
                    error_details |-> "joined errors" ]
     IN  IF JoinRaises(total_errors)
         THEN /\ pc' = "except"
              /\ exc' = "sequence item 0: expected str instance, ExcelValidationError found"
              /\ UNCHANGED << dbm, audit_log, audit_calls, report >>
         ELSE \E init_ok \in BOOLEAN, outcome \in AuditOutcomes :
                LET logged == LogDataIngestion(dbm, audit_log, entry, init_ok, outcome)
                IN  /\ dbm' = logged.dbm
                    /\ audit_log' = logged.audit_log
                    /\ audit_calls' = Append(audit_calls,
                         [raised |-> logged.raised,
                          written |-> logged.audit_log # audit_log])
                    /\ IF logged.raised
                       THEN /\ pc' = "except"
                            /\ exc' = "audit log write failed"
                            /\ UNCHANGED report
                       ELSE /\ pc' = "done"
                            /\ exc' = exc
                            /\ report' =
                                 [ total_rows |-> total_rows,
                                   processed_rows |-> counts.successful_count,
                                   failed_rows |-> counts.failed_count,
                                   status |-> status,
                                   errors |-> [k \in DOMAIN total_errors |->
                                                 StrOf(total_errors[k])],
                                   warnings |-> << >> ]
  /\ UNCHANGED << file, batch_size, store, store0, df, parsing_errors,
                  policies_data, sources, conversion_errors, i, counts, batches >>
  /\ UNCHANGED << first, call >>

\* except Exception as e: the failure log, whose own failure is swallowed,
\* and the "failed" report.
HandleException ==
  /\ pc = "except"
  /\ \E init_repo \in BOOLEAN, init_ok \in BOOLEAN, outcome \in AuditOutcomes :
       LET got == GetDatabaseManager(dbm, init_repo)
           logged == IF got.raised
                     THEN [dbm |-> got.dbm, audit_log |-> audit_log, raised |-> TRUE]
                     ELSE LogDataIngestion(got.dbm, audit_log, FailedEntry(exc),
                                           init_ok, outcome)
       IN  /\ dbm' = logged.dbm
           /\ audit_log' = logged.audit_log
           /\ audit_calls' = Append(audit_calls,
                [raised |-> logged.raised, written |-> logged.audit_log # audit_log])
           /\ IF FailureLogEscapes(logged.raised)
              THEN pc' = "escaped" /\ UNCHANGED report
              ELSE pc' = "done" /\ report' = FailedReport(exc)
  /\ UNCHANGED << file, batch_size, store, store0, df, parsing_errors,
                  policies_data, sources, conversion_errors, i, counts, batches,
                  exc >>
  /\ UNCHANGED << first, call >>

Next ==
  \/ GetRepositories
  \/ ParseFile
  \/ ConvertDataFrame
  \/ BulkCreateBatch
  \/ LogAndReturn
  \/ HandleException

Spec == Init /\ [][Next]_vars

(***************************************************************************)
(* The three-row sheet: a row with a currency-formatted sum insured, a row *)
(* with a treaty percentage of 150 and a row without insured name, in any  *)
(* order, ingested into an empty table.                                    *)
(***************************************************************************)
ScenarioRows ==
  << WithCell(GoodRow, 3, <<Naira,"1",",","0","0","0",",","0","0","0">>),
     WithCell(WithCell(GoodRow, 1, <<"P","2">>), 8, <<"1","5","0">>),
     WithCell(WithCell(GoodRow, 1, <<"P","3">>), 2, NaN) >>

Permutations3 ==
  { p \in [1..3 -> 1..3] : \A a, b \in 1..3 : a # b => p[a] # p[b] }

ScenarioFiles ==
  { [readable |-> TRUE, headers |-> StandardHeaders,
     rows |-> [k \in 1..3 |-> ScenarioRows[p[k]]]] : p \in Permutations3 }

InitScenario == InitRun(ScenarioFiles) /\ store = {} /\ first = NoFirst

SpecScenario == InitScenario /\ [][Next]_vars

(***************************************************************************)
(* The pipeline run twice on the same file: when the first run has         *)
(* returned, its outcome is kept, the table is emptied, the database       *)
(* manager is put back as the first run found it, and ingest_excel_file is *)
(* entered again.  The audit table keeps the entries of the first run.     *)
(***************************************************************************)
\* What the collaborators did in a batch: which constructions succeeded,
\* whether get_session() failed, whether the commit met a database error.
BatchBehaviour(b) ==
  [ built |-> b.built, session_failed |-> (b.built = {} /\ b.raised),
    commit_fault |-> b.commit_fault ]

BatchBehaviours(bs) == [k \in DOMAIN bs |-> BatchBehaviour(bs[k])]

IsPrefix(a, b) == Len(a) <= Len(b) /\ SubSeq(b, 1, Len(a)) = a

\* The sheets run twice: rows that are persisted, a row with a cell that is
\* not a number, a row that is rejected at conversion; sheets lacking a
\* column; unreadable bytes.
RerunRowKinds ==
  { WithCell(GoodRow, 3, <<Naira,"1",",","0","0","0">>),
    WithCell(GoodRow, 2, NaN),
    WithCell(GoodRow, 3, <<"a","b","c">>) }

RerunFiles ==
  { f \in Files : \A k \in DOMAIN f.rows :
      f.headers = StandardHeaders => f.rows[k] \in RerunRowKinds }

InitTwice ==
  InitRun(RerunFiles) /\ store = {} /\ first = [run |-> 1, dbm |-> dbm]

Rerun ==
  /\ pc = "done"
  /\ first.run = 1
  /\ first' = [ run |-> 2, dbm |-> first.dbm, report |-> report, store |-> store,
                batches |-> batches, audit_calls |-> audit_calls, exc |-> exc ]
  /\ pc' = "start"
  /\ dbm' = first.dbm
  /\ store' = {}
  /\ store0' = {}
  /\ df' = << >>
  /\ parsing_errors' = << >>
  /\ policies_data' = << >>
  /\ sources' = << >>
  /\ conversion_errors' = << >>
  /\ i' = 0
  /\ counts' = [successful_count |-> 0, failed_count |-> 0, error_messages |-> << >>]
  /\ batches' = << >>
  /\ audit_calls' = << >>
  /\ exc' = ""
  /\ report' = NoReport
  /\ UNCHANGED << file, batch_size, audit_log, call >>

\* In the second run the collaborators do what they did in the first.
Replays ==
  first.run = 2 =>
    /\ IsPrefix(BatchBehaviours(batches'), BatchBehaviours(first.batches))
    /\ IsPrefix(audit_calls', first.audit_calls)
    /\ (exc' = "database initialization failed"
          <=> first.exc = "database initialization failed")

NextTwice ==
  \/ GetRepositories /\ Replays
  \/ ParseFile /\ Replays
  \/ ConvertDataFrame /\ Replays
  \/ BulkCreateBatch /\ Replays
  \/ LogAndReturn /\ Replays
  \/ HandleException /\ Replays
  \/ Rerun

SpecTwice == InitTwice /\ [][NextTwice]_vars

(***************************************************************************)
(* The parser's functions called on their own.  No run of the pipeline is  *)
(* in progress; `call` holds the argument and, once the function has       *)
(* returned, its result.                                                   *)
(***************************************************************************)
NoRun ==
  /\ pc = "call"
  /\ file = [readable |-> FALSE, headers |-> << >>, rows |-> << >>]
  /\ batch_size = 1
  /\ dbm = "none"
  /\ store = {}
  /\ store0 = {}
  /\ audit_log = << >>
  /\ df = << >>
  /\ parsing_errors = << >>
  /\ policies_data = << >>
  /\ sources = << >>
  /\ conversion_errors = << >>
  /\ i = 0
  /\ counts = [successful_count |-> 0, failed_count |-> 0, error_messages |-> << >>]
  /\ batches = << >>
  /\ audit_calls = << >>
  /\ exc = ""
  /\ report = NoReport
  /\ first = NoFirst

run_vars == << pc, file, batch_size, dbm, store, store0, audit_log, df,
               parsing_errors, policies_data, sources, conversion_errors, i,
               counts, batches, audit_calls, exc, report, first >>

\* The characters of the numeric cells: digits, point, sign, the three
\* characters the sanitizer removes, a blank and a letter.
CellAlphabet == {"1", "0", ".", "-", ",", Naira, "%", " ", "x"}

\* The spellings of nan, null and none in every letter case.
NullSpellings ==
  { [k \in DOMAIN w |-> IF k \in caps THEN UpperChar(w[k]) ELSE w[k]] :
      w \in NullTexts \ { << >> }, caps \in SUBSET (1..4) }

\* The cells of a numeric column: an empty cell, every text over the
\* alphabet, the null spellings bare and decorated.
CellTexts ==
  UNION { [1..n -> CellAlphabet] : n \in 0..MaxCellLen }
    \cup NullSpellings
    \cup { <<" ">> \o w \o <<"%">> : w \in NullSpellings }
    \cup { NaN }

\* A cell's text without its decoration: commas, currency and percent signs
\* deleted, surrounding whitespace trimmed.
Undecorated(text) ==
  Strip(SelectSeq(text, LAMBDA c : c \notin {",", Naira, "%"}))

\* Columns of one cell; of a cell and its undecorated text; of a cell before
\* and after a number and a text that is no number.
NumericColumns ==
  { << t >> : t \in CellTexts }
    \cup { << t, Undecorated(t) >> : t \in CellTexts \ { NaN } }
    \cup { << t, o >> : t \in CellTexts, o \in { <<"7">>, <<"x">> } }
    \cup { << o, t >> : t \in CellTexts, o \in { <<"7">>, <<"x">> } }

\* A DataFrame whose columns `fields` all hold the cells of `column`.
ColumnFrame(column, fields) ==
  [k \in DOMAIN column |-> [f \in fields |-> column[k]]]

InitSanitizer ==
  /\ NoRun
  /\ \E column \in NumericColumns : call = [fn |-> "pending", column |-> column]

CallCleanNumericField ==
  /\ call.fn = "pending"
  /\ \E field \in {"premium", "treaty_ppn"} :
       call' = [ fn |-> "_clean_numeric_field", column |-> call.column,
                 field |-> field,
                 result |-> CleanNumericField(ColumnFrame(call.column, {field}), field) ]
  /\ UNCHANGED run_vars

CallCleanAndValidateData ==
  /\ call.fn = "pending"
  /\ call' = [ fn |-> "_clean_and_validate_data", column |-> call.column,
               result |-> CleanAndValidateData(
                            ColumnFrame(call.column,
                              {"premium", "own_retention_ppn", "treaty_ppn"})) ]
  /\ UNCHANGED run_vars

NextSanitizer == CallCleanNumericField \/ CallCleanAndValidateData

SpecSanitizer == InitSanitizer /\ [][NextSanitizer]_vars

(***************************************************************************)
(* _parse_insurance_period called on period texts written in one of the    *)
(* four styles of date_patterns.                                           *)
(***************************************************************************)
YearOf(date) == date \div 10000

MonthOf(date) == (date \div 100) % 100

DayOf(date) == date % 100

\* A day or month as written: with or without a leading zero.
WriteNumber(n, padded) ==
  IF n < 10 /\ padded THEN <<"0">> \o NatStr(n) ELSE NatStr(n)

\* A date written in a style: day, month, year or year, month, day around
\* the style's separator.
WriteDate(style, date, padded) ==
  IF style.year_first
  THEN NatStr(YearOf(date)) \o << style.sep >> \o WriteNumber(MonthOf(date), padded)
         \o << style.sep >> \o WriteNumber(DayOf(date), padded)
  ELSE WriteNumber(DayOf(date), padded) \o << style.sep >>
         \o WriteNumber(MonthOf(date), padded) \o << style.sep >>
         \o NatStr(YearOf(date))

Blanks(n) == [k \in 1..n |-> " "]

WritePeriod(style, start, end, padded, left, right) ==
  WriteDate(style, start, padded) \o Blanks(left) \o <<"-">> \o Blanks(right)
    \o WriteDate(style, end, padded)

\* Calendar dates around the ends of months, a leap day, and days that are
\* also month numbers.
PeriodDates ==
  ( { MakeDate(2024, m, d) : m \in {1, 2, 12}, d \in {1, 12, 13, 31} }
      \ { MakeDate(2024, 2, 31) } )
    \cup { MakeDate(2024, 2, 29), MakeDate(2023, 12, 31) }

InitPeriod ==
  /\ NoRun
  /\ \E n \in DOMAIN DatePatterns, start \in PeriodDates, end \in PeriodDates,
        padded \in BOOLEAN, left \in 0..MaxGap, right \in 0..MaxGap :
       call = [ fn |-> "pending", style |-> n, start |-> start, end |-> end,
                period_str |-> WritePeriod(DatePatterns[n], start, end, padded,
                                           left, right) ]

CallParseInsurancePeriod ==
  /\ call.fn = "pending"
  /\ call' = [ fn |-> "_parse_insurance_period", style |-> call.style,
               start |-> call.start, end |-> call.end,
               period_str |-> call.period_str,
               result |-> ParseInsurancePeriod(call.period_str) ]
  /\ UNCHANGED run_vars

SpecPeriod == InitPeriod /\ [][CallParseInsurancePeriod]_vars

(***************************************************************************)
(* The period parser called on texts of any kind: dates that exist and     *)
(* dates that do not, in the four styles and year-first with slashes,      *)
(* alone, as periods, after a fragment of other text, and texts that are   *)
(* no dates at all.                                                        *)
(***************************************************************************)
\* Day, month, year triples as written in a cell; not all are dates.
WrittenDates ==
  { MakeDate(2024, 1, 13), MakeDate(2024, 4, 3), MakeDate(2025, 12, 31),
    MakeDate(2024, 13, 1), MakeDate(2023, 2, 29) }

WritingStyles == DatePatterns \o << [sep |-> "/", year_first |-> TRUE] >>

Fragments == { << >>, <<"2","0","2","4","-">>, <<"x"," ">> }

DateTexts ==
  { WriteDate(WritingStyles[n], date, padded) :
      n \in DOMAIN WritingStyles, date \in WrittenDates, padded \in BOOLEAN }

\* Two written dates of one style around a hyphen, after a fragment.
PeriodTexts ==
  { fragment \o WriteDate(WritingStyles[n], start, FALSE) \o Blanks(gap) \o <<"-">>
      \o Blanks(gap) \o WriteDate(WritingStyles[n], end, FALSE) :
      fragment \in Fragments, n \in DOMAIN WritingStyles,
      start \in WrittenDates, end \in WrittenDates, gap \in 0..MaxGap }

OtherTexts == { NaN, << >>, <<" ">>, <<"a","b","c">>, <<" ","1","-","2"," ">> }

InitPeriodTexts ==
  /\ NoRun
  /\ \E text \in DateTexts \cup PeriodTexts \cup OtherTexts :
       call = [fn |-> "pending", text |-> text]

\* re.search of every pattern on the stripped text, in list order.
PatternMatches(period_str) ==
  [n \in DOMAIN DatePatterns |-> ReSearch(Strip(period_str), DatePatterns[n])]

CallParsePeriodText ==
  /\ call.fn = "pending"
  /\ call' = [ fn |-> "_parse_insurance_period", text |-> call.text,
               matches |-> PatternMatches(AsTypeStr(call.text)),
               result |-> ParseInsurancePeriod(AsTypeStr(call.text)) ]
  /\ UNCHANGED run_vars

\* strptime of every format on the stripped text, in list order.
FormatResults(date_str) ==
  [n \in DOMAIN DateFormats |-> StrpTime(Strip(date_str), DateFormats[n])]

CallParseSingleDate ==
  /\ call.fn = "pending"
  /\ call' = [ fn |-> "_parse_single_date", text |-> call.text,
               formats |-> FormatResults(AsTypeStr(call.text)),
               result |-> ParseSingleDate(AsTypeStr(call.text)) ]
  /\ UNCHANGED run_vars

\* A DataFrame with a policy number and a period per row.
PeriodFrame(column) ==
  [k \in DOMAIN column |->
     [ policy_number |-> <<"P">> \o NatStr(k), period_of_insurance |-> column[k] ]]

CallTransformPeriodColumn ==
  /\ call.fn = "pending"
  /\ \E column \in { << call.text >>, << <<"a","b","c">>, call.text >>,
                      << call.text, WriteDate(DatePatterns[2], MakeDate(2024, 4, 3), TRUE)
                                      \o <<"-">>
                                      \o WriteDate(DatePatterns[2], MakeDate(2025, 12, 31), TRUE) >> } :
       call' = [ fn |-> "_transform_period_column", text |-> call.text,
                 column |-> column,
                 parsed |-> [k \in DOMAIN column |->
                               ParseInsurancePeriod(AsTypeStr(column[k]))],
                 result |-> TransformPeriodColumn(PeriodFrame(column)) ]
  /\ UNCHANGED run_vars

NextPeriodTexts ==
  CallParsePeriodText \/ CallParseSingleDate \/ CallTransformPeriodColumn

SpecPeriodTexts == InitPeriodTexts /\ [][NextPeriodTexts]_vars

(***************************************************************************)
(* _create_column_mapping, _validate_required_columns and                  *)
(* _find_best_column_match called on the headers of a sheet, standardized  *)
(* as parse_excel_file does.                                               *)
(***************************************************************************)
\* Headers a sheet may use in place of, or besides, the default ones.
HeaderPool ==
  { <<"P","o","l","i","c","y"," ","N","o">>,
    <<"C","l","i","e","n","t"," ","N","a","m","e">>,
    <<"C","o","v","e","r","a","g","e"," ","A","m","o","u","n","t">>,
    <<"P","O","L","I","C","Y">>,
    <<"I","N","S","U","R","E","D">>,
    <<"D","a","t","e","s">> }

\* The sheet of the scenario: policy number, insured name and sum insured
\* under "Policy No", "Client Name", "Coverage Amount", the rest default.
VariantHeaders ==
  [ StandardHeaders EXCEPT
      ![1] = <<"P","o","l","i","c","y"," ","N","o">>,
      ![2] = <<"C","l","i","e","n","t"," ","N","a","m","e">>,
      ![3] = <<"C","o","v","e","r","a","g","e"," ","A","m","o","u","n","t">> ]

\* The default sheet with header k replaced by h, or h added at the end.
Variation(headers, k, h) ==
  IF k > Len(headers) THEN Append(headers, h) ELSE [headers EXCEPT ![k] = h]

\* Short sheets: up to MaxShort different headers.
ShortSheets ==
  { sheet \in UNION { [1..n -> HeaderPool \cup { StandardHeaders[1] }] :
                        n \in 1..MaxShort } :
      \A a, b \in DOMAIN sheet : a # b => sheet[a] # sheet[b] }

Sheets ==
  { StandardHeaders, VariantHeaders }
    \cup { Variation(StandardHeaders, k, h) :
             k \in 1..(Len(StandardHeaders) + 1), h \in HeaderPool }
    \cup ShortSheets

\* The default ExcelColumnMapping, and requests that name separate date
\* columns.
Mappings ==
  { DefaultMapping,
    [ DefaultMapping EXCEPT !.start_date_col = <<"D","a","t","e","s">>,
                            !.end_date_col = <<"D","a","t","e","s">> ],
    [ DefaultMapping EXCEPT !.start_date_col = DefaultMapping.period_of_insurance_col,
                            !.end_date_col = <<"D","a","t","e","s">> ] }

\* The header each mapping rule selects, in rule order.
SelectedHeaders(excel_columns, rules) ==
  [n \in DOMAIN rules |-> FindBestColumnMatch(excel_columns, rules[n].names)]

InitMapper ==
  /\ NoRun
  /\ \E sheet \in Sheets, mapping \in Mappings :
       call = [ fn |-> "pending", excel_columns |-> StandardizeColumns(sheet),
                mapping |-> mapping ]

MappingCall(excel_columns, mapping, column_map) ==
  [ fn |-> "_create_column_mapping", excel_columns |-> excel_columns,
    mapping |-> mapping,
    selected |-> SelectedHeaders(excel_columns, MappingRules(mapping)),
    column_map |-> column_map,
    missing_fields |-> ValidateRequiredColumns(column_map) ]

\* Lines 74-80 of parse_excel_file: the map is created and validated.
CallCreateColumnMapping ==
  /\ call.fn = "pending"
  /\ call' = MappingCall(call.excel_columns, call.mapping,
                         CreateColumnMapping(call.excel_columns, call.mapping))
  /\ UNCHANGED run_vars

CallFindBestColumnMatch ==
  /\ call.fn = "pending"
  /\ \E n \in DOMAIN MappingRules(call.mapping) :
       call' = [ fn |-> "_find_best_column_match",
                 excel_columns |-> call.excel_columns,
                 possible_names |-> MappingRules(call.mapping)[n].names,
                 result |-> FindBestColumnMatch(call.excel_columns,
                              MappingRules(call.mapping)[n].names) ]
  /\ UNCHANGED run_vars

NextMapper == CallCreateColumnMapping \/ CallFindBestColumnMatch

SpecMapper == InitMapper /\ [][NextMapper]_vars

(***************************************************************************)
(* The policy table under a sequence of operations: bulk_create_policies   *)
(* on the records of a file and create_policy on one record, one after     *)
(* the other on the same store.                                            *)
(***************************************************************************)
\* Operations in one sequence.
MaxOps == 2

\* Valid records: two with the policy number P1 that differ in the insured
\* name, one with the number P2.
PolicyPool ==
  { StoredPolicy,
    [StoredPolicy EXCEPT !.insured_name = <<"B","e","t","a">>],
    [StoredPolicy EXCEPT !.policy_number = <<"P","2">>] }

\* The records a file hands over: one record, or two with every combination
\* of equal records, equal numbers and different numbers.
PolicyLists ==
  { << p >> : p \in PolicyPool } \cup { << p, q >> : p, q \in PolicyPool }

\* What create_policy meets after its lookup: nothing, an IntegrityError or
\* another database error at the commit, or an error of refresh() once the
\* commit is through.
CommitOutcomes == {"ok", "IntegrityError", "OperationalError", "RefreshError"}

\* create_policy replacing the stored record of the same number instead of
\* raising.
CreatePolicyOverwrite(stored, policy_data, session_ok, commit) ==
  IF ~session_ok
  THEN [store |-> stored, raised |-> TRUE, error |-> "Exception"]
  ELSE IF commit = "IntegrityError"
  THEN [store |-> stored, raised |-> TRUE,
        error |-> "ValueError: Policy creation failed: duplicate or invalid data"]
  ELSE IF commit = "OperationalError"
  THEN [store |-> stored, raised |-> TRUE, error |-> "Exception"]
  ELSE [store |-> { q \in stored : q.policy_number # policy_data.policy_number }
                    \cup {policy_data},
        raised |-> FALSE, error |-> ""]

\* PolicyRepository.create_policy: the lookup by policy number raises
\* ValueError before anything is added; otherwise the record is added and
\* committed, an IntegrityError of the commit becomes a ValueError and any
\* other exception is raised again; the session rolls back what was added,
\* but an error of refresh() comes after the commit.
CreatePolicy(stored, policy_data, session_ok, commit) ==
  IF ~session_ok
  THEN [store |-> stored, raised |-> TRUE, error |-> "Exception"]
  ELSE IF \E q \in stored : q.policy_number = policy_data.policy_number
  THEN [store |-> stored, raised |-> TRUE,
        error |-> "ValueError: Policy number already exists"]
  ELSE IF commit = "IntegrityError"
  THEN [store |-> stored, raised |-> TRUE,
        error |-> "ValueError: Policy creation failed: duplicate or invalid data"]
  ELSE IF commit = "OperationalError"
  THEN [store |-> stored, raised |-> TRUE, error |-> "Exception"]
  ELSE IF commit = "RefreshError"
  THEN [store |-> stored \cup {policy_data}, raised |-> TRUE, error |-> "Exception"]
  ELSE [store |-> stored \cup {policy_data}, raised |-> FALSE, error |-> ""]

\* The history kept of the sequence: the operation that just ended and the
\* one before it.
LastTwo(ops, o) == IF ops = << >> THEN << o >> ELSE << ops[Len(ops)], o >>

\* The table is empty or holds one record, no operation has run, and the
\* manager is initialized or not yet.
InitStore ==
  /\ pc = "idle"
  /\ file = [readable |-> FALSE, headers |-> << >>, rows |-> << >>]
  /\ batch_size = 1
  /\ dbm \in {"uninit", "ready"}
  /\ store \in InitialStores
  /\ store0 = store
  /\ audit_log = << >>
  /\ df = << >>
  /\ parsing_errors = << >>
  /\ policies_data = << >>
  /\ sources = << >>
  /\ conversion_errors = << >>
  /\ i = 0
  /\ counts = [successful_count |-> 0, failed_count |-> 0, error_messages |-> << >>]
  /\ batches = << >>
  /\ audit_calls = << >>
  /\ exc = ""
  /\ report = NoReport
  /\ call = NoCall
  /\ first = [run |-> 1, done |-> 0, ops |-> << >>]

\* bulk_create_policies(policies_data, batch_size) is entered: the counters
\* start at zero.  Of the history only the operation before this one is
\* kept.
StartBulkCreate ==
  /\ pc = "idle"
  /\ first.done < MaxOps
  /\ \E policies \in PolicyLists, size \in 1..2 :
       /\ policies_data' = policies
       /\ batch_size' = size
  /\ pc' = "bulk"
  /\ store0' = store
  /\ i' = 0
  /\ counts' = [successful_count |-> 0, failed_count |-> 0, error_messages |-> << >>]
  /\ batches' = << >>
  /\ first' = [ first EXCEPT
                  !.ops = IF @ = << >> THEN @ ELSE << @[Len(@)] >> ]
  /\ UNCHANGED << file, dbm, store, audit_log, df, parsing_errors, sources,
                  conversion_errors, audit_calls, exc, report, call >>

\* The batch loop is over and bulk_create_policies returns its counters.
ReturnBulkCreate ==
  /\ pc = "bulk"
  /\ i >= Len(policies_data)
  /\ pc' = "idle"
  /\ first' = [ first EXCEPT
                  !.done = @ + 1,
                  !.ops = LastTwo(@,
                    [ op |-> "bulk_create_policies", policies |-> policies_data,
                      batch_size |-> batch_size, store_before |-> store0,
                      store_after |-> store, batches |-> batches,
                      result |-> counts ]) ]
  /\ UNCHANGED << file, batch_size, dbm, store, store0, audit_log, df,
                  parsing_errors, policies_data, sources, conversion_errors, i,
                  counts, batches, audit_calls, exc, report, call >>

\* One call of create_policy.
CallCreatePolicy ==
  /\ pc = "idle"
  /\ first.done < MaxOps
  /\ \E policy_data \in PolicyPool, init_ok \in BOOLEAN, commit \in CommitOutcomes :
       \E created \in { CreatePolicy(store, policy_data,
                                     ~GetSession(dbm, init_ok).raised, commit) } :
         /\ dbm' = GetSession(dbm, init_ok).dbm
         /\ store' = created.store
         /\ first' = [ first EXCEPT
                         !.done = @ + 1,
                         !.ops = LastTwo(@,
                           [ op |-> "create_policy", policy_data |-> policy_data,
                             store_before |-> store, store_after |-> created.store,
                             raised |-> created.raised, error |-> created.error ]) ]
  /\ UNCHANGED << pc, file, batch_size, store0, audit_log, df, parsing_errors,
                  policies_data, sources, conversion_errors, i, counts, batches,
                  audit_calls, exc, report, call >>

NextStore ==
  StartBulkCreate \/ BulkCreateBatch \/ ReturnBulkCreate \/ CallCreatePolicy

SpecStore == InitStore /\ [][NextStore]_vars

(***************************************************************************)
(* AgenticWorkflow.process_query: one request going through its steps.     *)
(* The state of the request is held in call: the step it is at, whether    *)
(* that step is running, the local variables steps and tokens_used, what   *)
(* each step returned and the begin and end of every step as they happen.  *)
(***************************************************************************)
\* The step names in the order process_query awaits them.
WorkflowOrder ==
  <<"analyze_query", "generate_sql", "execute_query", "generate_answer">>

\* What a call of the language model gives a step: a response with its
\* success flag and token count, or an exception.
LlmOutcomes ==
  { [raised |-> FALSE, success |-> s, tokens |-> t] : s \in BOOLEAN, t \in {0, 7} }
    \cup { [raised |-> TRUE, success |-> FALSE, tokens |-> 0] }

\* What execute_custom_query gives: an exception, or rows with or without a
\* policy_number column, the column possibly null.
QueryOutcomes ==
  { [raised |-> TRUE, data |-> << >>] }
    \cup { [raised |-> FALSE, data |-> d] :
             d \in { << >>, << [policy_number |-> <<"P","1">>] >>,
                     << [count |-> 1] >>, << [policy_number |-> None] >> } }

\* _error_step
ErrorStep(name) == [step_name |-> name, step_type |-> "error", success |-> FALSE]

\* _analyze_query
AnalyzeQueryResult(o) ==
  IF o.raised
  THEN [success |-> FALSE, tokens |-> 0, step |-> ErrorStep("analyze_query")]
  ELSE [ success |-> o.success, tokens |-> o.tokens,
         step |-> [ step_name |-> "analyze_query", step_type |-> "analysis",
                    success |-> o.success ] ]

\* _generate_sql; is_select: the content of the response starts with SELECT,
\* otherwise the fixed query takes its place.
GenerateSqlResult(o, is_select) ==
  IF o.raised
  THEN [success |-> FALSE, tokens |-> 0, step |-> ErrorStep("generate_sql")]
  ELSE [ success |-> o.success, tokens |-> o.tokens,
         sql |-> IF is_select THEN "generated" ELSE "fallback",
         step |-> [ step_name |-> "generate_sql", step_type |-> "query_generation",
                    success |-> o.success ] ]

\* _execute_query
ExecuteQueryResult(o) ==
  IF o.raised
  THEN [success |-> FALSE, data |-> << >>, step |-> ErrorStep("execute_query")]
  ELSE [ success |-> TRUE, data |-> o.data,
         step |-> [ step_name |-> "execute_query", step_type |-> "database_query",
                    success |-> TRUE ] ]

\* _generate_answer
GenerateAnswerResult(o) ==
  IF o.raised
  THEN [answer |-> "error", tokens |-> 0, step |-> ErrorStep("generate_answer")]
  ELSE [ answer |-> "content", tokens |-> o.tokens,
         step |-> [ step_name |-> "generate_answer",
                    step_type |-> "response_generation", success |-> o.success ] ]

\* process_query going on to the next step whatever the step reported.
ContinuesAlways(result) == TRUE

\* `if not analysis_result["success"]: return ...` and the same test of
\* sql_result: the next step is reached only after a reported success.
Continues(result) == result.success

\* _error_response
ErrorResponse(error, steps, tokens) ==
  [ answer |-> error, confidence_score |-> 0, workflow_steps |-> steps,
    source_policies |-> << >>, tokens_used |-> tokens ]

\* row.get("policy_number", "") for the rows of the result.
SourcePolicies(data) ==
  [ k \in DOMAIN data |->
      IF "policy_number" \in DOMAIN data[k] THEN data[k].policy_number ELSE << >> ]

\* The QueryResponse of the last lines of process_query; the score is in
\* hundredths.
FinalResponse(exec_result, answer_result, steps, tokens) ==
  [ answer |-> answer_result.answer,
    confidence_score |-> IF exec_result.success THEN 85 ELSE 30,
    workflow_steps |-> steps,
    source_policies |-> SourcePolicies(exec_result.data),
    tokens_used |-> tokens ]

\* steps.append(result["step"]); tokens_used += tokens, once the awaited step
\* has returned.
Recorded(c, result, tokens) ==
  [ c EXCEPT !.running = FALSE,
             !.events = Append(@, [event |-> "end", step |-> c.at]),
             !.steps = Append(@, result.step),
             !.tokens_used = @ + tokens,
             !.results = Append(@, result) ]

\* process_query is entered: steps = [], tokens_used = 0.
InitWorkflow ==
  /\ NoRun
  /\ call = [ fn |-> "process_query", at |-> "analyze_query", running |-> FALSE,
              steps |-> << >>, tokens_used |-> 0, results |-> << >>,
              events |-> << >> ]

\* The step process_query is at is called.
BeginStep ==
  /\ call.fn = "process_query"
  /\ \E n \in DOMAIN WorkflowOrder : call.at = WorkflowOrder[n]
  /\ ~call.running
  /\ call' = [ call EXCEPT !.running = TRUE,
                           !.events = Append(@, [event |-> "begin", step |-> call.at]) ]
  /\ UNCHANGED run_vars

\* Step 1 returns.
AnalyzeQuery ==
  /\ call.at = "analyze_query"
  /\ call.running
  /\ \E o \in LlmOutcomes :
       \E done \in { Recorded(call, AnalyzeQueryResult(o), AnalyzeQueryResult(o).tokens) } :
         call' = IF Continues(AnalyzeQueryResult(o))
                 THEN [done EXCEPT !.at = "generate_sql"]
                 ELSE [ fn |-> "process_query", at |-> "returned",
                        running |-> FALSE, steps |-> done.steps,
                        tokens_used |-> done.tokens_used,
                        results |-> done.results, events |-> done.events,
                        response |-> ErrorResponse("Query analysis failed",
                                       done.steps, done.tokens_used) ]
  /\ UNCHANGED run_vars

\* Step 2 returns.
GenerateSql ==
  /\ call.at = "generate_sql"
  /\ call.running
  /\ \E o \in LlmOutcomes, is_select \in BOOLEAN :
       \E done \in { Recorded(call, GenerateSqlResult(o, is_select),
                              GenerateSqlResult(o, is_select).tokens) } :
         call' = IF Continues(GenerateSqlResult(o, is_select))
                 THEN [done EXCEPT !.at = "execute_query"]
                 ELSE [ fn |-> "process_query", at |-> "returned",
                        running |-> FALSE, steps |-> done.steps,
                        tokens_used |-> done.tokens_used,
                        results |-> done.results, events |-> done.events,
                        response |-> ErrorResponse("SQL generation failed",
                                       done.steps, done.tokens_used) ]
  /\ UNCHANGED run_vars

\* Step 3 returns; its tokens are not counted and its outcome is not tested.
ExecuteQuery ==
  /\ call.at = "execute_query"
  /\ call.running
  /\ \E o \in QueryOutcomes :
       call' = [Recorded(call, ExecuteQueryResult(o), 0) EXCEPT !.at = "generate_answer"]
  /\ UNCHANGED run_vars

\* Step 4 returns and the response is built; a null among the policy
\* numbers fails the validation of QueryResponse and process_query raises.
GenerateAnswer ==
  /\ call.at = "generate_answer"
  /\ call.running
  /\ \E o \in LlmOutcomes :
       \E done \in { Recorded(call, GenerateAnswerResult(o), GenerateAnswerResult(o).tokens) } :
         call' = IF \E k \in DOMAIN call.results[3].data :
                      SourcePolicies(call.results[3].data)[k] = None
                 THEN [ fn |-> "process_query", at |-> "raised",
                        running |-> FALSE, steps |-> done.steps,
                        tokens_used |-> done.tokens_used,
                        results |-> done.results, events |-> done.events ]
                 ELSE [ fn |-> "process_query", at |-> "returned",
                        running |-> FALSE, steps |-> done.steps,
                        tokens_used |-> done.tokens_used,
                        results |-> done.results, events |-> done.events,
                        response |-> FinalResponse(call.results[3],
                                       GenerateAnswerResult(o), done.steps,
                                       done.tokens_used) ]
  /\ UNCHANGED run_vars

NextWorkflow ==
  BeginStep \/ AnalyzeQuery \/ GenerateSql \/ ExecuteQuery \/ GenerateAnswer

SpecWorkflow == InitWorkflow /\ [][NextWorkflow]_vars

(***************************************************************************)
(* Concurrent callers of get_database_manager and get_session.  The        *)
(* callers are tasks of one event loop: a task runs until an await that    *)
(* waits for the database, which in initialize() is create_tables().  The  *)
(* state is held in call: the global db_manager, the manager's             *)
(* _initialized flag, how often the engine and the session factory were    *)
(* created, whether an initialize() raised, and the position of each task. *)
(***************************************************************************)
\* Concurrent requests.
MaxTasks == 3

Tasks == 1..MaxTasks

\* `self.engine = create_async_engine(...)` and `self.async_session_factory
\* = async_sessionmaker(...)` of initialize(), run by a task that found
\* _initialized false; the task then waits in create_tables().
BeginInitialize(c, t, waiting_at) ==
  [ c EXCEPT !.engines = @ + 1, !.factories = @ + 1,
             !.tasks[t] = [at |-> waiting_at] ]

\* No request has arrived: the global is None.
InitManager ==
  /\ NoRun
  /\ call = [ fn |-> "get_database_manager", db_manager |-> "none",
              initialized |-> FALSE, engines |-> 0, factories |-> 0,
              failed |-> FALSE, tasks |-> [t \in Tasks |-> [at |-> "start"]] ]

\* get_database_manager up to its first wait: with the global None the
\* manager is created and stored in the global, then initialize() is
\* entered; otherwise the global is returned as it is.
CallGetDatabaseManager ==
  /\ call.fn = "get_database_manager"
  /\ \E t \in Tasks :
       /\ call.tasks[t].at = "start"
       /\ call' = IF call.db_manager = "none"
                  THEN [ BeginInitialize(call, t, "manager_create_tables")
                           EXCEPT !.db_manager = "created" ]
                  ELSE [ call EXCEPT !.tasks[t] =
                           [at |-> "has_manager", initialized |-> call.initialized] ]
  /\ UNCHANGED run_vars

\* create_tables() is over for a task in get_database_manager: _initialized
\* is set and the manager returned, or the exception is raised to the caller
\* and the global stays set.
ReturnGetDatabaseManager ==
  /\ call.fn = "get_database_manager"
  /\ \E t \in Tasks, ok \in BOOLEAN :
       /\ call.tasks[t].at = "manager_create_tables"
       /\ call' = IF ok
                  THEN [ call EXCEPT !.initialized = TRUE,
                                     !.tasks[t] = [at |-> "has_manager",
                                                   initialized |-> TRUE] ]
                  ELSE [ call EXCEPT !.failed = TRUE,
                                     !.tasks[t] = [at |-> "raised"] ]
  /\ UNCHANGED run_vars

\* get_session of the manager a task holds, up to its first wait:
\* initialize() is entered when _initialized is false, otherwise the session
\* is opened.
CallGetSession ==
  /\ call.fn = "get_database_manager"
  /\ \E t \in Tasks :
       /\ call.tasks[t].at = "has_manager"
       /\ call' = IF call.initialized
                  THEN [call EXCEPT !.tasks[t] = [at |-> "in_session"]]
                  ELSE BeginInitialize(call, t, "session_create_tables")
  /\ UNCHANGED run_vars

\* create_tables() is over for a task in get_session: _initialized is set
\* and the session opened, or the exception is raised to the caller.
EnterSession ==
  /\ call.fn = "get_database_manager"
  /\ \E t \in Tasks, ok \in BOOLEAN :
       /\ call.tasks[t].at = "session_create_tables"
       /\ call' = IF ok
                  THEN [ call EXCEPT !.initialized = TRUE,
                                     !.tasks[t] = [at |-> "in_session"] ]
                  ELSE [ call EXCEPT !.failed = TRUE,
                                     !.tasks[t] = [at |-> "raised"] ]
  /\ UNCHANGED run_vars

NextManager ==
  \/ CallGetDatabaseManager
  \/ ReturnGetDatabaseManager
  \/ CallGetSession
  \/ EnterSession

SpecManager == InitManager /\ [][NextManager]_vars

(***************************************************************************)
(* Properties of a run of ingest_excel_file.                               *)
(***************************************************************************)
\* A required field is missing from the mapped fields, or the period field
\* and at least one of the two date fields are.
Unmapped(mapped_fields) ==
  \/ \E k \in DOMAIN RequiredFields : RequiredFields[k] \notin mapped_fields
  \/ /\ "period_of_insurance" \notin mapped_fields
     /\ ~({"insurance_period_start_date", "insurance_period_end_date"}
            \subseteq mapped_fields)

\* The sheet lacks one of the columns of StandardHeaders.
LacksColumn == file.readable /\ Len(file.headers) < Len(StandardHeaders)

\* The report of a run that was aborted: "failed" with every count zero.
FailedWithZeroCounts(r) ==
  /\ r.status = "failed"
  /\ r.total_rows = 0 /\ r.processed_rows = 0 /\ r.failed_rows = 0

\* The PolicyRecord invariants, on amounts in hundredths.
PolicyRecordInvariants(p) ==
  /\ p.policy_number # << >>
  /\ p.insured_name # << >>
  /\ p.sum_insured > 0
  /\ p.premium > 0
  /\ p.own_retention_ppn \in 0..10000
  /\ p.treaty_ppn \in 0..10000
  /\ p.own_retention_sum_insured >= 0
  /\ p.own_retention_premium >= 0
  /\ p.treaty_sum_insured >= 0
  /\ p.treaty_premium >= 0
  /\ p.insurance_period_end_date > p.insurance_period_start_date

\* The rows of df that were handed to bulk_create_policies.
HandedOver == { sources[j] : j \in DOMAIN sources }

\* The records this run added to the table.
Persisted == store \ store0

\* The audit entry e carries the status and counts of the returned report.
EntryMatchesReport(e) ==
  /\ e.status = report.status
  /\ e.rows_processed = report.total_rows
  /\ e.rows_successful = report.processed_rows
  /\ e.rows_failed = report.failed_rows

\* failed_count once iteration k of the batch loop has ended.
FailedAfter(k) ==
  IF k < Len(batches) THEN batches[k + 1].failed_before ELSE counts.failed_count

\* What iteration k of the batch loop added to the table.
AddedBy(k) == batches[k].store_after \ batches[k].store_before

\* C1: ingest_excel_file never lets an exception escape: whatever file
\* reading, column mapping, repository acquisition, row conversion, batch
\* persistence and audit logging do, the run ends by returning a report, and
\* a run in which an exception reached the outer handler returns status
\* "failed" with an error list that is exactly the one exception text.
C1_NoExceptionEscapes ==
  /\ pc \in {"start", "parse", "convert", "bulk", "except", "done"}
  /\ (pc = "done" => report.status \in {"success", "partial", "failed"})
  /\ (pc = "done" /\ exc # "" =>
        /\ report.status = "failed"
        /\ Len(report.errors) = 1
        /\ report.errors[1].kind = "exception"
        /\ report.errors[1].message = exc)

\* A run whose batches ran, whose audit write raised, and whose failure
\* log raised as well, has returned its report.
C1_Witness ==
  /\ pc = "done"
  /\ batches # << >>
  /\ Len(audit_calls) = 2
  /\ audit_calls[1].raised /\ audit_calls[2].raised
  /\ report.status = "failed"

\* C2: when the file cannot be read, or a required field is unmapped, or
\* neither the period field nor both date fields are mapped, the run aborts
\* before any row is processed: no batch is ever attempted, the table stays
\* as it was, and the report is "failed" with all three counts zero.  (The
\* sheets with an unmapped field are those lacking a column, which the first
\* conjunct establishes when the run starts.)
C2_AbortBeforeRows ==
  /\ (pc = "start" /\ file.readable =>
        (LacksColumn <=>
           Unmapped(MappedFields(CreateColumnMapping(
                      StandardizeColumns(file.headers), DefaultMapping)))))
  /\ (~file.readable \/ LacksColumn =>
        /\ batches = << >>
        /\ policies_data = << >>
        /\ store = store0
        /\ (pc = "done" => FailedWithZeroCounts(report)))

\* A readable sheet lacking a required column has been answered.
C2_Witness ==
  /\ pc = "done"
  /\ LacksColumn
  /\ file.rows # << >>
  /\ store0 # {}
  /\ FailedWithZeroCounts(report)

\* C3: the status of a returned report is "failed" when the run persisted
\* no row (every row rejected before persistence included), "partial" when
\* it persisted some rows and some rows failed, "success" when no row failed.
C3_StatusByOutcome ==
  pc = "done" =>
    report.status =
      IF Cardinality(Persisted) = 0 THEN "failed"
      ELSE IF Cardinality(Persisted) < Len(file.rows) THEN "partial"
      ELSE "success"

\* C4: a failure of the audit write that follows the batches is swallowed:
\* the returned report carries the computed status, counts and error list.
C4_AuditFailureSwallowed ==
  (pc = "done" /\ batches # << >> /\ exc = "audit log write failed") =>
    /\ report.status = DetermineStatus(counts.successful_count, counts.failed_count)
    /\ report.total_rows = Len(df)
    /\ report.processed_rows = counts.successful_count
    /\ report.failed_rows = counts.failed_count
    /\ Len(report.errors) =
         Len(parsing_errors) + Len(conversion_errors) + Len(counts.error_messages)

C6_CellErrorsReported ==
  pc = "done" =>
    SelectSeq(report.errors, LAMBDA e : e.kind = "repr")
      = [k \in DOMAIN parsing_errors |-> StrOf(parsing_errors[k])]

\* C7: the batches are attempted one after another, batch k being the k-th
\* contiguous slice of batch_size records; a batch whose persistence raises
\* adds its whole size to failed_count and stores nothing; and once
\* bulk_create_policies has returned every record was in exactly one batch.
C7_SequentialBatches ==
  /\ \A k \in DOMAIN batches :
       /\ batches[k].first = (k - 1) * batch_size + 1
       /\ batches[k].batch =
            { j \in DOMAIN policies_data :
                j >= batches[k].first /\ j < batches[k].first + batch_size }
       /\ batches[k].batch # {}
       /\ (batches[k].raised =>
             /\ FailedAfter(k) - batches[k].failed_before
                  >= Cardinality(batches[k].batch)
             /\ AddedBy(k) = {})
  /\ ((pc \in {"done", "except"} \/ (pc = "bulk" /\ i >= Len(policies_data))) =>
        UNION { batches[k].batch : k \in DOMAIN batches } = DOMAIN policies_data)

\* The first batch failed and the second one was attempted and committed.
C7_Witness ==
  /\ pc = "done"
  /\ Len(batches) = 2
  /\ batches[1].raised
  /\ batches[2].committed

\* C8 as stated: every batch attempted has added either all of its records
\* to the table or none, and what a batch added is still there.
C8_BatchAllOrNothing ==
  \A k \in DOMAIN batches :
    /\ \/ AddedBy(k) = { policies_data[j] : j \in batches[k].batch }
       \/ AddedBy(k) = {}
    /\ batches[k].store_after \subseteq store

\* C8, amended: every batch attempted has added to the table either all of
\* its records whose database object was constructed or nothing, and what
\* a batch added is never removed by a later batch.
C8_BuiltAllOrNothing ==
  \A k \in DOMAIN batches :
    /\ \/ AddedBy(k) = { policies_data[j] : j \in batches[k].built }
       \/ AddedBy(k) = {}
    /\ batches[k].store_before \subseteq batches[k].store_after
    /\ batches[k].store_after \subseteq store

\* The first batch committed, the second failed, and the run returned.
C8_Witness ==
  /\ pc = "done"
  /\ Len(batches) = 2
  /\ batches[1].committed
  /\ batches[2].raised
  /\ AddedBy(1) # {}

\* C9: every record handed to bulk_create_policies, and every record the
\* run persists, satisfies the PolicyRecord invariants; a row whose data
\* violates one of them is not handed over.
C9_OnlyValidPolicies ==
  /\ \A k \in DOMAIN policies_data : PolicyRecordInvariants(policies_data[k])
  /\ \A p \in Persisted : PolicyRecordInvariants(p)
  /\ \A k \in HandedOver : PolicyRecordInvariants(PolicyData(df[k].row))

\* A sheet with a sum_insured cell defaulted to 0.0 beside a row that was
\* persisted.
C9_Witness ==
  /\ Persisted # {}
  /\ \E k \in DOMAIN df :
       /\ df[k].row["sum_insured"] = 0
       /\ k \notin HandedOver

\* C10: in a run whose collaborators did not fail, every row that fails
\* row-level acceptance is kept out of the batches, has an error naming its
\* row in the report, and is still counted by total_rows but not by
\* processed_rows.
C10_RejectedRows ==
  (pc = "done" /\ exc \notin {"database initialization failed", "audit log write failed"}) =>
    \A k \in DOMAIN df :
      ~PolicyRecordInvariants(PolicyData(df[k].row)) =>
        /\ k \notin HandedOver
        /\ \E n \in DOMAIN report.errors :
             /\ report.errors[n].kind = "conversion"
             /\ report.errors[n].row_number = k + 1
        /\ report.total_rows = Len(file.rows)
        /\ report.processed_rows <= Len(file.rows) - 1

\* The database, every batch and the audit store worked throughout the run.
CollaboratorsWorked ==
  /\ exc \notin {"database initialization failed", "audit log write failed"}
  /\ \A k \in DOMAIN batches :
       batches[k].committed /\ batches[k].built = batches[k].batch

\* The validation errors of kind error_type in the returned report.
ReportedCellErrors(error_type) ==
  { n \in DOMAIN report.errors :
      report.errors[n].kind = "repr" /\ report.errors[n].of.error_type = error_type }

\* C11: the three-row sheet ingested into an empty table, with working
\* collaborators, returns processed_rows = 2, failed_rows = 1, status
\* "partial" and exactly one "invalid_percentage" validation error, the row
\* without insured name being reported apart from the cell-level errors.
C11_ThreeRowScenario ==
  (pc = "done" /\ file \in ScenarioFiles /\ store0 = {} /\ CollaboratorsWorked) =>
    /\ report.processed_rows = 2
    /\ report.failed_rows = 1
    /\ report.status = "partial"
    /\ Cardinality(ReportedCellErrors("invalid_percentage")) = 1
    /\ \E n \in DOMAIN report.errors : report.errors[n].kind = "conversion"

\* The second run has returned after the collaborators behaved as in the
\* first.
RerunReturned ==
  /\ pc = "done"
  /\ first.run = 2
  /\ BatchBehaviours(batches) = BatchBehaviours(first.batches)
  /\ audit_calls = first.audit_calls
  /\ (exc = "database initialization failed"
        <=> first.exc = "database initialization failed")

ErrorsAt(errors, k, field) ==
  { n \in DOMAIN errors :
      errors[n].row_number = RowNumber(k) /\ errors[n].column_name = field }

\* The cleaned text of a cell is empty or a spelling of nan, null or none.
IsNullCell(cell) ==
  Undecorated(AsTypeStr(cell)) = << >>
    \/ Lower(Undecorated(AsTypeStr(cell))) \in
         { <<"n","a","n">>, <<"n","u","l","l">>, <<"n","o","n","e">> }

\* C13: a numeric cell whose text, after removing separators and symbols
\* and trimming, is empty or nan/null/none in any letter case is set to 0.0
\* by _clean_numeric_field and no validation error is recorded for it.
C13_NullCellsBecomeZero ==
  call.fn = "_clean_numeric_field" =>
    \A k \in DOMAIN call.column :
      IsNullCell(call.column[k]) =>
        /\ call.result.df[k][call.field] = 0
        /\ ErrorsAt(call.result.errors, k, call.field) = {}

\* The sanitizer has returned from a column holding "NaN%" spelt with
\* capitals and padded.
C13_Witness ==
  /\ call.fn = "_clean_numeric_field"
  /\ call.column = << <<" ","N","a","N","%">> >>
  /\ call.result.df[1][call.field] = 0

IsUnparseable(cell) ==
  ~IsNullCell(cell) /\ ~ParseFloat(Undecorated(AsTypeStr(cell))).ok

\* C15: for a cell whose cleaned text is not a number, exactly one
\* "invalid_numeric" error is recorded for its row and column, the error's
\* raw_value is the original text of the cell, the cell is set to 0.0, and
\* the other cells of the column are converted as usual.
C15_InvalidNumericRecorded ==
  call.fn = "_clean_numeric_field" =>
    /\ Len(call.result.df) = Len(call.column)
    /\ \A k \in DOMAIN call.column :
         IF IsUnparseable(call.column[k])
         THEN /\ Cardinality(ErrorsAt(call.result.errors, k, call.field)) = 1
              /\ \A n \in ErrorsAt(call.result.errors, k, call.field) :
                   /\ call.result.errors[n].error_type = "invalid_numeric"
                   /\ call.result.errors[n].raw_value = AsTypeStr(call.column[k])
              /\ call.result.df[k][call.field] = 0
         ELSE /\ ErrorsAt(call.result.errors, k, call.field) = {}
              /\ IsNullCell(call.column[k]) => call.result.df[k][call.field] = 0
              /\ ~IsNullCell(call.column[k]) =>
                   call.result.df[k][call.field]
                     = ParseFloat(Undecorated(call.column[k])).value

\* The value _clean_numeric_field leaves in a cell, in hundredths.
ParsedValue(cell) ==
  IF IsNullCell(cell) \/ IsUnparseable(cell) THEN 0
  ELSE ParseFloat(Undecorated(AsTypeStr(cell))).value

InvalidPercentages(errors, k, field) ==
  { n \in ErrorsAt(errors, k, field) : errors[n].error_type = "invalid_percentage" }

\* C16: an own_retention_ppn or treaty_ppn cell parsed below 0 or above 100
\* gets exactly one "invalid_percentage" error for its row and column and
\* keeps its parsed value; a value inside [0,100] gets no such error.
C16_PercentageFlaggedNotReset ==
  call.fn = "_clean_and_validate_data" =>
    \A k \in DOMAIN call.column :
      \A n \in DOMAIN PercentageFields :
        /\ call.result.df[k][PercentageFields[n]] = ParsedValue(call.column[k])
        /\ Cardinality(InvalidPercentages(call.result.errors, k, PercentageFields[n]))
             = IF ParsedValue(call.column[k]) < 0 \/ ParsedValue(call.column[k]) > 10000
               THEN 1 ELSE 0
        /\ InvalidPercentages(call.result.errors, k, "premium") = {}

\* The column "101", "7" has been validated: 101 is flagged in both
\* percentage columns and kept, 7 is not flagged.
C16_Witness ==
  /\ call.fn = "_clean_and_validate_data"
  /\ call.column = << <<"1","0","1">>, <<"7">> >>
  /\ call.result.df[1]["treaty_ppn"] = 10100
  /\ InvalidPercentages(call.result.errors, 1, "treaty_ppn") # {}
  /\ InvalidPercentages(call.result.errors, 1, "own_retention_ppn") # {}
  /\ InvalidPercentages(call.result.errors, 2, "treaty_ppn") = {}

(***************************************************************************)
(* Properties of the period parser called on its own.                      *)
(***************************************************************************)
\* C17: a pair of valid calendar dates written in one of the four styles
\* (DD/MM/YYYY, YYYY-MM-DD, DD-MM-YYYY, DD.MM.YYYY), both in the same style,
\* with a hyphen and optional blanks between them, is returned by
\* _parse_insurance_period as exactly that start and end date; slash dates
\* are read day first.
C17_StyledPeriodsRecovered ==
  call.fn = "_parse_insurance_period" =>
    /\ call.result.ok
    /\ call.result.start_date = call.start
    /\ call.result.end_date = call.end

\* "1/2/2024 - 12/1/2024" has been parsed as 1 February to 12 January.
C17_Witness ==
  /\ call.fn = "_parse_insurance_period"
  /\ call.period_str = <<"1","/","2","/","2","0","2","4"," ","-"," ",
                         "1","2","/","1","/","2","0","2","4">>
  /\ call.result.start_date = MakeDate(2024, 2, 1)
  /\ call.result.end_date = MakeDate(2024, 1, 12)

(***************************************************************************)
(* Properties of the column mapper called on its own.                      *)
(***************************************************************************)
\* The space-separated header variants and the field each stands for.
VariantFields ==
  << [header |-> <<"P","O","L","I","C","Y"," ","N","O">>, field |-> "policy_number"],
     [header |-> <<"C","L","I","E","N","T"," ","N","A","M","E">>,
      field |-> "insured_name"],
     [header |-> <<"C","O","V","E","R","A","G","E"," ","A","M","O","U","N","T">>,
      field |-> "sum_insured"] >>

InSeq(x, seq) == \E k \in DOMAIN seq : seq[k] = x

\* C18: with the default alias table, each of the headers "Policy No",
\* "Client Name", "Coverage Amount" of a sheet is mapped by
\* _create_column_mapping to policy_number, insured_name, sum_insured, and
\* none of these fields is reported missing.
C18_VariantHeadersResolved ==
  (call.fn = "_create_column_mapping" /\ call.mapping = DefaultMapping) =>
    \A v \in DOMAIN VariantFields :
      InSeq(VariantFields[v].header, call.excel_columns) =>
        /\ VariantFields[v].header \in DOMAIN call.column_map
        /\ call.column_map[VariantFields[v].header] = VariantFields[v].field
        /\ ~InSeq(VariantFields[v].field, call.missing_fields)

\* The headers an alias matches: identical, containing it, or contained in it.
AliasHits(excel_columns, alias) ==
  { k \in DOMAIN excel_columns :
      \/ excel_columns[k] = alias
      \/ IsSubstr(alias, excel_columns[k])
      \/ IsSubstr(excel_columns[k], alias) }

\* The header an alias chooses: itself if it is a header, otherwise the
\* first header in column order among those it matches.
ChosenBy(excel_columns, alias, hits) ==
  IF InSeq(alias, excel_columns) THEN alias
  ELSE excel_columns[CHOOSE k \in hits : \A l \in hits : k <= l]

\* The aliases of a list that match some header.
MatchingAliases(excel_columns, possible_names) ==
  { a \in DOMAIN possible_names :
      AliasHits(excel_columns, Upper(possible_names[a])) # {} }

FirstOf(set) == CHOOSE a \in set : \A b \in set : a <= b

\* C19: _find_best_column_match returns the header chosen by the first
\* alias of the list that matches any header (the identical upper-cased
\* header if present, otherwise the first header in column order that
\* contains the alias or is contained in it); later aliases are not used
\* even when they would match exactly; the result is none only when no
\* alias matches.
C19_FirstMatchingAliasWins ==
  call.fn = "_find_best_column_match" =>
    IF MatchingAliases(call.excel_columns, call.possible_names) = {}
    THEN call.result = None
    ELSE call.result =
           ChosenBy(call.excel_columns,
             Upper(call.possible_names[
               FirstOf(MatchingAliases(call.excel_columns, call.possible_names))]),
             AliasHits(call.excel_columns,
               Upper(call.possible_names[
                 FirstOf(MatchingAliases(call.excel_columns, call.possible_names))])))

\* On the sheet "POLICY", "Policy No" the first alias, POLICY NUMBER, has
\* chosen "POLICY" by containment although POLICY NO is a header.
C19_Witness ==
  /\ call.fn = "_find_best_column_match"
  /\ call.excel_columns = << <<"P","O","L","I","C","Y">>,
                             <<"P","O","L","I","C","Y"," ","N","O">> >>
  /\ call.possible_names = MappingRules(DefaultMapping)[1].names
  /\ call.result = <<"P","O","L","I","C","Y">>

\* C20: in a mapping that passes _validate_required_columns every required
\* field is assigned to exactly one header, and no two fields selected the
\* same header (a mapping in which they did is rejected).
C20_NoSharedHeaderWhenAccepted ==
  (call.fn = "_create_column_mapping" /\ call.missing_fields = << >>) =>
    /\ \A r \in DOMAIN RequiredFields :
         Cardinality({ h \in DOMAIN call.column_map :
                         call.column_map[h] = RequiredFields[r] }) = 1
    /\ \A m, n \in DOMAIN call.selected :
         (m # n /\ call.selected[m] # None) =>
           call.selected[m] # call.selected[n]

(***************************************************************************)
(* Properties of the period parser on texts of any kind.                   *)
(***************************************************************************)
\* The outcome the first matching pattern's groups stand for: their dates
\* if both parse, an error otherwise.
DecidedBy(match, result) ==
  IF ParseSingleDate(match.start_str).ok /\ ParseSingleDate(match.end_str).ok
  THEN /\ result.ok
       /\ result.start_date = ParseSingleDate(match.start_str).date
       /\ result.end_date = ParseSingleDate(match.end_str).date
  ELSE ~result.ok

\* C21: _parse_insurance_period is decided by the first pattern, in list
\* order, that matches anywhere in the text: it fails if a substring that
\* pattern captured fails all six formats, and it fails if no pattern
\* matches.
C21_FirstMatchingPatternDecides ==
  call.fn = "_parse_insurance_period" =>
    IF \A n \in DOMAIN call.matches : ~call.matches[n].matched
    THEN ~call.result.ok
    ELSE DecidedBy(
           call.matches[FirstOf({ n \in DOMAIN call.matches : call.matches[n].matched })],
           call.result)

\* C22: _parse_single_date returns the date of the first of the six formats
\* %d/%m/%Y, %m/%d/%Y, %Y-%m-%d, %d-%m-%Y, %d.%m.%Y, %Y/%m/%d that parses,
\* so 03/04/2024 is 3 April; the two sides of a period are parsed each on
\* its own and may be read with different formats.
C22_FirstFormatWins ==
  /\ DateFormats =
       << [sep |-> "/", order |-> <<"d", "m", "Y">>],
          [sep |-> "/", order |-> <<"m", "d", "Y">>],
          [sep |-> "-", order |-> <<"Y", "m", "d">>],
          [sep |-> "-", order |-> <<"d", "m", "Y">>],
          [sep |-> ".", order |-> <<"d", "m", "Y">>],
          [sep |-> "/", order |-> <<"Y", "m", "d">>] >>
  /\ call.fn = "_parse_single_date" =>
       /\ call.result.ok = (\E n \in DOMAIN call.formats : call.formats[n].ok)
       /\ call.result.ok =>
            call.result.date =
              call.formats[FirstOf({ n \in DOMAIN call.formats : call.formats[n].ok })].date
       /\ call.text = <<"0","3","/","0","4","/","2","0","2","4">> =>
            call.result.date = MakeDate(2024, 4, 3)
  /\ (call.fn = "_parse_insurance_period" /\ call.result.ok) =>
       \E n \in DOMAIN call.matches :
         /\ call.matches[n].matched
         /\ call.result.start_date = ParseSingleDate(call.matches[n].start_str).date
         /\ call.result.end_date = ParseSingleDate(call.matches[n].end_str).date

\* "13/1/2024-1/13/2024" has been parsed: the start day first, the end
\* month first, both 13 January.
C22_Witness ==
  /\ call.fn = "_parse_insurance_period"
  /\ call.text = <<"1","3","/","1","/","2","0","2","4","-",
                   "1","/","1","3","/","2","0","2","4">>
  /\ call.result.ok
  /\ call.result.start_date = MakeDate(2024, 1, 13)
  /\ call.result.end_date = MakeDate(2024, 1, 13)

\* The errors _transform_period_column recorded for one row.
PeriodErrorsOf(errors, k) ==
  { n \in DOMAIN errors : errors[n].row_number = RowNumber(k) }

C24_SuccessHasNoErrors ==
  pc = "done" =>
    /\ report.status = "success" => report.errors = << >>
    /\ ( \/ parsing_errors # << >>
         \/ conversion_errors # << >>
         \/ counts.error_messages # << >> ) => report.status # "success"

\* C27: whenever ingest_excel_file returns, processed_rows is the number of
\* records this run committed to the table.
C27_ProcessedRowsAreCommitted ==
  pc = "done" => report.processed_rows = Cardinality(Persisted)

\* C28: when bulk_create_policies has returned, successful_count plus
\* failed_count is the number of records it was given, whichever
\* constructions and commits failed.
C28_CountsAddUp ==
  (pc \in {"bulk", "except", "done"} /\ i >= Len(policies_data)) =>
    counts.successful_count + counts.failed_count = Len(policies_data)

(***************************************************************************)
(* Properties of the policy table under a sequence of operations.          *)
(***************************************************************************)
\* The operations of the sequence that were calls of fn.
OpsOf(fn) == { n \in DOMAIN first.ops : first.ops[n].op = fn }

\* The number of the record is the number of a record of the table.
NumberStored(stored, policy) ==
  \E q \in stored : q.policy_number = policy.policy_number

\* failed_count of the bulk operation o once its batch k has ended.
OpFailedAfter(o, k) ==
  IF k < Len(o.batches) THEN o.batches[k + 1].failed_before
                        ELSE o.result.failed_count

\* The records of batch b of the bulk operation o that were added to the
\* session.
BuiltRecords(o, b) == { o.policies[k] : k \in b.built }

\* C25: create_policy with a policy number that is already stored raises and
\* leaves the table as it was; bulk_create_policies looks nothing up: a
\* record whose number is stored is added to the session like any other, the
\* commit fails on it, and the call returns with the whole batch, its fresh
\* records included, counted as failed and nothing of it stored.
C25_DuplicateSemantics ==
  /\ \A n \in OpsOf("create_policy") :
       NumberStored(first.ops[n].store_before, first.ops[n].policy_data) =>
         /\ first.ops[n].raised
         /\ first.ops[n].store_after = first.ops[n].store_before
  /\ \A n \in OpsOf("bulk_create_policies") :
       \A k \in DOMAIN first.ops[n].batches :
         (\E p \in BuiltRecords(first.ops[n], first.ops[n].batches[k]) :
             NumberStored(first.ops[n].batches[k].store_before, p)) =>
           /\ ~first.ops[n].batches[k].committed
           /\ first.ops[n].batches[k].store_after
                = first.ops[n].batches[k].store_before
           /\ OpFailedAfter(first.ops[n], k)
                >= first.ops[n].batches[k].failed_before
                     + Cardinality(first.ops[n].batches[k].batch)

\* A create_policy call was refused for a stored number, and a batch of two
\* built records, one with a stored number and one with a fresh number,
\* stored neither.
C25_Witness ==
  /\ \E n \in OpsOf("create_policy") :
       /\ NumberStored(first.ops[n].store_before, first.ops[n].policy_data)
       /\ first.ops[n].policy_data \notin first.ops[n].store_before
       /\ first.ops[n].error = "ValueError: Policy number already exists"
  /\ \E n \in OpsOf("bulk_create_policies") :
       \E k \in DOMAIN first.ops[n].batches :
         \E p, q \in BuiltRecords(first.ops[n], first.ops[n].batches[k]) :
           /\ NumberStored(first.ops[n].batches[k].store_before, p)
           /\ ~NumberStored(first.ops[n].batches[k].store_before, q)
           /\ q \notin first.ops[n].store_after

\* No two records of the table share a policy number.
NumbersUnique(stored) ==
  \A p, q \in stored : p.policy_number = q.policy_number => p = q

\* Some number is the number of two positions of the set, or of a record of
\* the table.
HoldsDuplicate(stored, policies, positions) ==
  \/ \E k \in positions : NumberStored(stored, policies[k])
  \/ \E k, l \in positions :
       k # l /\ policies[k].policy_number = policies[l].policy_number

\* The operation n and the one before it ran bulk_create_policies on the
\* same records.
SameFileAgain(n) ==
  /\ n > 1
  /\ first.ops[n].op = "bulk_create_policies"
  /\ first.ops[n - 1].op = "bulk_create_policies"
  /\ first.ops[n].policies = first.ops[n - 1].policies

\* C29 as stated: after any sequence of ingestion runs and single-record
\* creations no two stored policies share a policy number; a batch that
\* contains a number already stored, or repeated within the batch, commits
\* none of its records; ingesting the same file a second time into the
\* store left by the first run adds no record.
C29_NoSharedPolicyNumber ==
  /\ NumbersUnique(store)
  /\ \A n \in OpsOf("bulk_create_policies") :
       \A k \in DOMAIN first.ops[n].batches :
         HoldsDuplicate(first.ops[n].batches[k].store_before,
                        first.ops[n].policies, first.ops[n].batches[k].batch) =>
           first.ops[n].batches[k].store_after
             = first.ops[n].batches[k].store_before
  /\ \A n \in DOMAIN first.ops :
       SameFileAgain(n) => first.ops[n].store_after = first.ops[n].store_before

\* C29, amended: no two stored policies share a policy number; a batch
\* whose records added to the session hold a number already stored, or one
\* number twice, commits none of its records; ingesting the same file a
\* second time adds no record when the first run counted no failed record.
C29_NoSharedPolicyNumberAmended ==
  /\ NumbersUnique(store)
  /\ \A n \in OpsOf("bulk_create_policies") :
       \A k \in DOMAIN first.ops[n].batches :
         HoldsDuplicate(first.ops[n].batches[k].store_before,
                        first.ops[n].policies, first.ops[n].batches[k].built) =>
           first.ops[n].batches[k].store_after
             = first.ops[n].batches[k].store_before
  /\ \A n \in DOMAIN first.ops :
       (SameFileAgain(n) /\ first.ops[n - 1].result.failed_count = 0) =>
         first.ops[n].store_after = first.ops[n].store_before

\* A file of two records was ingested twice: the first run stored both and
\* counted no failure, the second built every record again and stored
\* nothing; and the table holds a record whose number was offered again with
\* another insured name.
C29_Witness ==
  /\ \E n \in DOMAIN first.ops :
       /\ SameFileAgain(n)
       /\ first.ops[n - 1].result.failed_count = 0
       /\ Cardinality(first.ops[n - 1].store_after
                        \ first.ops[n - 1].store_before) = 2
       /\ \A k \in DOMAIN first.ops[n].batches :
            first.ops[n].batches[k].built = first.ops[n].batches[k].batch
       /\ first.ops[n].store_after = first.ops[n].store_before
  /\ NumbersUnique(store)

(***************************************************************************)
(* Properties of process_query.                                            *)
(***************************************************************************)
\* Begin and end of the four steps, one step after the other.
WorkflowEvents ==
  [ n \in 1..(2 * Len(WorkflowOrder)) |->
      [ event |-> IF n % 2 = 1 THEN "begin" ELSE "end",
        step |-> WorkflowOrder[(n + 1) \div 2] ] ]

StepNames(steps) == [k \in DOMAIN steps |-> steps[k].step_name]

\* The step was called.
Began(name) ==
  \E n \in DOMAIN call.events :
    call.events[n] = [event |-> "begin", step |-> name]

\* C26: process_query runs analyze, generate SQL, execute, summarize in that
\* order, each step beginning only after the one before has ended; the
\* execute step is called only if analysis and SQL generation both reported
\* success; and the steps recorded, as well as the workflow_steps of the
\* response, are a prefix of the four steps in that order.
C26_StepsInFixedOrder ==
  /\ IsPrefix(call.events, WorkflowEvents)
  /\ Began("execute_query") =>
       /\ Len(call.results) >= 2
       /\ call.results[1].success
       /\ call.results[2].success
  /\ IsPrefix(StepNames(call.steps), WorkflowOrder)
  /\ call.at = "returned" =>
       /\ call.response.workflow_steps = call.steps
       /\ IsPrefix(StepNames(call.response.workflow_steps), WorkflowOrder)

\* A response with all four steps in which the query failed and the answer
\* was generated all the same.
C26_Witness ==
  /\ call.at = "returned"
  /\ StepNames(call.response.workflow_steps) = WorkflowOrder
  /\ call.response.workflow_steps[3].step_type = "error"
  /\ call.response.workflow_steps[4].success
  /\ call.response.confidence_score = 30

(***************************************************************************)
(* Properties of concurrent callers of the database manager.               *)
(***************************************************************************)
\* C30: when several requests call get_database_manager or get_session
\* before initialization has completed, and no initialize() fails, the
\* engine and the session factory are created at most once and no caller is
\* returned a manager whose initialization has not finished.
C30_InitializedOnce ==
  ~call.failed =>
    /\ call.engines <= 1
    /\ call.factories <= 1
    /\ \A t \in Tasks :
         call.tasks[t].at = "has_manager" => call.tasks[t].initialized

====
